---------------------------- MODULE Spec2Model ----------------------------
(***************************************************************************)
(* A model of the codec core of thundermage117/codec: the ImageCodec       *)
(* pipeline (colour transform, block DCT / full-image Haar DWT,            *)
(* quantization, chroma resampling, block inspection) and the wavelet      *)
(* helpers.                                                                *)
(*                                                                         *)
(* Numbers.  The program computes in IEEE doubles.  The model computes in  *)
(* fixed point: a real v is the integer v * ONE, ONE = 2^FracBits, and     *)
(* every product or quotient is rounded to the nearest unit, as every      *)
(* operation on doubles is rounded to the nearest double.                  *)
(***************************************************************************)
EXTENDS Integers, Sequences, FiniteSets, TLC

VARIABLES
    codec,      \* the ImageCodec instance (its private members), or NoCodec
    image,      \* the caller's BGR image, the argument of process()
    output,     \* the image the last process() call returned
    planes,     \* the planes the last process() call handed to and got from
                \* processChannel / processChannelDWT, and the merged image
    debug,      \* the last inspectBlock() call: its arguments and snapshot
    wav,        \* the arguments and result of the last wavelet helper call
    analysis,   \* the arguments and result of the last CodecAnalysis call or
                \* Image construction
    last,       \* the operation that produced the current state
    g_session,  \* the CodecSession of the web bridge
    g_artifact_gain,    \* the gain of the Artifacts view of the web bridge
    ret         \* what the last call of the web bridge returned

vars == <<codec, image, output, planes, debug, wav, analysis, last,
          g_session, g_artifact_gain, ret>>

----------------------------------------------------------------------------
(* Bounds of the model *)

\* fraction bits of the fixed-point representation of a double
FracBits == 10

\* how far a test image extends past one full 8x8 block, per axis
MaxPartial == 1

\* largest block coordinate handed to inspectBlock
MaxBlock == 1

\* largest width / height of a buffer handed to dwtImage / dwtQuantStep
MaxDim == 9

\* largest width / height handed to calcDwtLevels (besides 128 and 1024)
MaxLevelArg == 70

\* significand bits of the floating-point representation of a double in the
\* fidelity metrics
FloatBits == 12

\* largest width / height / channel count handed to the Image constructor
MaxCtorArg == 3

\* largest magnitude of a quality handed to the ImageCodec constructor by a
\* caller that does not keep to the documented range
MaxQualityArg == 5

----------------------------------------------------------------------------
(* Fixed-point arithmetic *)

ONE == 2 ^ FracBits

Abs(n) == IF n < 0 THEN -n ELSE n
Sgn(n) == IF n < 0 THEN -1 ELSE 1
Min(a, b) == IF b < a THEN b ELSE a
Max(a, b) == IF a < b THEN b ELSE a

\* std::round of the rational n/d (d > 0): to nearest, halves away from zero
RoundDiv(n, d) == Sgn(n) * ((2 * Abs(n) + d) \div (2 * d))

\* a double holding the integer n
Fx(n) == n * ONE

\* v * (micro / 10^6), rounded: a product with a decimal literal of the
\* source (micro > 0), taken in two steps of a thousandth
MulMicro(v, micro) ==
    (v \div 1000) * (micro \div 1000)
        + ((v \div 1000) * (micro % 1000) + (v % 1000) * (micro \div 1000)
               + ((v % 1000) * (micro % 1000) + 500) \div 1000 + 500) \div 1000

\* the function f, held as the table of its values
Tabulate(f) == f @@ [x \in {} |-> 0]

\* the 8x8 grid g, held as the table of its values
TabulateGrid(g) == Tabulate([i \in DOMAIN g |-> Tabulate(g[i])])

\* std::max(0.0, std::min(255.0, val))
Clamp255(val) == Max(0, Min(Fx(255), val))

\* g(0) + ... + g(7), and the sum of g over an 8x8 grid, row by row
Sum8(g(_)) == g(0) + g(1) + g(2) + g(3) + g(4) + g(5) + g(6) + g(7)
Sum64(g(_, _)) ==
    LET row(i) == LET cell(j) == g(i, j) IN Sum8(cell)
    IN  Sum8(row)

----------------------------------------------------------------------------
(* Floating-point arithmetic of the fidelity metrics.  A double is the     *)
(* pair <<m, e>> of value m * 2^e, with 2^(FloatBits-1) <= |m| < 2^FloatBits *)
(* or m = 0 = e; every operation is rounded to the nearest such number,    *)
(* ties to even, as IEEE 754 rounds.  The exponent has no bound: the values *)
(* of the metrics are far from the ends of the range of a double.          *)

RECURSIVE BitLen(_)
\* the number of bits of n >= 0
BitLen(n) == IF n = 0 THEN 0 ELSE 1 + BitLen(n \div 2)

\* a / d for a >= 0 and d > 0, to nearest, ties to even
RoundHalfEven(a, d) ==
    IF 2 * (a % d) > d \/ (2 * (a % d) = d /\ (a \div d) % 2 = 1)
    THEN a \div d + 1
    ELSE a \div d

\* the double nearest to n * 2^e
FNorm(n, e) ==
    IF n = 0 THEN <<0, 0>>
    ELSE IF BitLen(Abs(n)) <= FloatBits
    THEN <<n * 2 ^ (FloatBits - BitLen(Abs(n))), e - (FloatBits - BitLen(Abs(n)))>>
    ELSE IF RoundHalfEven(Abs(n), 2 ^ (BitLen(Abs(n)) - FloatBits)) = 2 ^ FloatBits
    THEN <<Sgn(n) * 2 ^ (FloatBits - 1), e + BitLen(Abs(n)) - FloatBits + 1>>
    ELSE <<Sgn(n) * RoundHalfEven(Abs(n), 2 ^ (BitLen(Abs(n)) - FloatBits)),
           e + BitLen(Abs(n)) - FloatBits>>

\* the double of an integer, and of a fixed-point sample
Float(n) == FNorm(n, 0)
FromFx(v) == FNorm(v, -FracBits)

\* a + b: a summand below a quarter of the last place of the other one
\* does not change it
FAdd(a, b) ==
    IF a[1] = 0 THEN b
    ELSE IF b[1] = 0 THEN a
    ELSE IF a[2] - b[2] > FloatBits + 2 THEN a
    ELSE IF b[2] - a[2] > FloatBits + 2 THEN b
    ELSE IF a[2] >= b[2] THEN FNorm(a[1] * 2 ^ (a[2] - b[2]) + b[1], b[2])
    ELSE FNorm(a[1] + b[1] * 2 ^ (b[2] - a[2]), a[2])

FNeg(a) == <<-a[1], a[2]>>
FSub(a, b) == FAdd(a, FNeg(b))
FMul(a, b) == FNorm(a[1] * b[1], a[2] + b[2])

\* a / b for b # 0: the quotient of the significands with FloatBits + 2
\* fraction bits, and one more bit that is set if the division left a
\* remainder
FDiv(a, b) ==
    FNorm(Sgn(a[1]) * Sgn(b[1])
              * (2 * ((Abs(a[1]) * 2 ^ (FloatBits + 2)) \div Abs(b[1]))
                 + (IF (Abs(a[1]) * 2 ^ (FloatBits + 2)) % Abs(b[1]) = 0 THEN 0 ELSE 1)),
          a[2] - b[2] - (FloatBits + 3))

\* a < b and a <= b
FLt(a, b) == FSub(a, b)[1] < 0
FLe(a, b) == FSub(a, b)[1] <= 0

\* 10 * log10(a) for a > 0, in fixed point: 10 * log10(2) = 3.010300 times
\* log2(a), which is exact at the powers of two and linear between two
\* neighbouring ones
TenLog10(a) ==
    MulMicro(Fx(a[2] + FloatBits - 1)
                 + RoundDiv((a[1] - 2 ^ (FloatBits - 1)) * ONE, 2 ^ (FloatBits - 1)),
             3010300)

----------------------------------------------------------------------------
(* Quantization tables: ImageCodec.cpp *)

BASE_LUMA ==
    << <<16, 11, 10, 16, 24, 40, 51, 61>>,
       <<12, 12, 14, 19, 26, 58, 60, 55>>,
       <<14, 13, 16, 24, 40, 57, 69, 56>>,
       <<14, 17, 22, 29, 51, 87, 80, 62>>,
       <<18, 22, 37, 56, 68, 109, 103, 77>>,
       <<24, 35, 55, 64, 81, 104, 113, 92>>,
       <<49, 64, 78, 87, 103, 121, 120, 101>>,
       <<72, 92, 95, 98, 112, 100, 103, 99>> >>

BASE_CHROMA ==
    << <<17, 18, 24, 47, 99, 99, 99, 99>>,
       <<18, 21, 26, 66, 99, 99, 99, 99>>,
       <<24, 26, 56, 99, 99, 99, 99, 99>>,
       <<47, 66, 99, 99, 99, 99, 99, 99>>,
       <<99, 99, 99, 99, 99, 99, 99, 99>>,
       <<99, 99, 99, 99, 99, 99, 99, 99>>,
       <<99, 99, 99, 99, 99, 99, 99, 99>>,
       <<99, 99, 99, 99, 99, 99, 99, 99>> >>

Idx8 == 0 .. 7

\* the scale with the slope of its upper branch halved: 200 - quality from
\* quality 50 on
QualityScaleSingleSlope(quality) ==
    IF quality < 50 THEN <<5000, quality * 100>>
                    ELSE <<200 - quality, 100>>

\* the scale of a quality factor as the rational <<numerator, denominator>>,
\* denominator >= 0: (quality < 50 ? 5000 / quality : 200 - 2 * quality) / 100.
\* For quality 0 the quotient 5000.0 / 0.0 is +infinity (denominator 0), for
\* a negative quality it is negative.
QualityScale(quality) ==
    IF quality < 0 THEN <<-5000, -quality * 100>>
    ELSE IF quality < 50 THEN <<5000, quality * 100>>
    ELSE <<200 - 2 * quality, 100>>

\* the double +infinity, as a value above every finite value of the model
Infinity == 2 ^ 30

\* a table without the floor: round(base * scale)
ScaledTableNoFloor(base, quality) ==
    LET scale == QualityScale(quality)
    IN  [i \in Idx8 |-> [j \in Idx8 |->
            Fx(RoundDiv(base[i + 1][j + 1] * scale[1], scale[2]))]]

\* one table of generateQuantizationTables(): max(1.0, round(base * scale))
ScaledTable(base, quality) ==
    LET scale == QualityScale(quality)
    IN  [i \in Idx8 |-> [j \in Idx8 |->
            IF scale[2] = 0 THEN Infinity
            ELSE Max(Fx(1), Fx(RoundDiv(base[i + 1][j + 1] * scale[1], scale[2])))]]

generateQuantizationTables(quality) ==
    [luma |-> ScaledTable(BASE_LUMA, quality),
     chroma |-> ScaledTable(BASE_CHROMA, quality)]

\* the sum of the 64 entries of a table
TableSum(t) == LET entry(i, j) == t[i][j] IN Sum64(entry)

\* What the storage of m_lumaQuantTable / m_chromaQuantTable can hold when
\* nothing has written it: any values at all, of which these are samples.
ConstTable(v) == [i \in Idx8 |-> [j \in Idx8 |-> v]]
IndeterminateTables == {ConstTable(v) : v \in {0, -Fx(3)}}

----------------------------------------------------------------------------
(* Image: Image.h *)

\* Image::Image(width, height, channels): width*height*channels samples, all 0
Image(width, height, channels) ==
    [m_width |-> width, m_height |-> height, m_channels |-> channels,
     m_data |-> [k \in 0 .. width * height * channels - 1 |-> 0]]

\* Image::Image(): no samples
NoImage == Image(0, 0, 0)

\* the constructor without its test of the dimensions
ImageCtorUnchecked(width, height, channels) ==
    [thrown |-> "none", image |-> Image(width, height, channels)]

\* Image::index
index(img, x, y, c) == (y * img.m_width + x) * img.m_channels + c

\* Image::at
at(img, x, y, c) == img.m_data[index(img, x, y, c)]

\* an image of the given shape holding the samples data
WithData(width, height, channels, data) ==
    [m_width |-> width, m_height |-> height, m_channels |-> channels,
     m_data |-> Tabulate(data)]

\* one channel of an interleaved image as a plane (the split loops of process)
Channel(img, c) ==
    WithData(img.m_width, img.m_height, 1,
             [k \in 0 .. img.m_width * img.m_height - 1 |->
                 img.m_data[k * img.m_channels + c]])

\* the constructor Image(int width, int height, int channels) as its caller
\* sees it: it throws std::invalid_argument, or the object exists
ImageCtor(width, height, channels) ==
    IF width <= 0 \/ height <= 0 \/ channels <= 0
    THEN [thrown |-> "invalid_argument"]
    ELSE [thrown |-> "none", image |-> Image(width, height, channels)]

----------------------------------------------------------------------------
(* ColorTransform: colorspace.cpp.  The decimal literals are in millionths. *)

bgrToYCrCb(in) ==
    LET n == in.m_width * in.m_height
        B(k) == in.m_data[3 * k]
        G(k) == in.m_data[3 * k + 1]
        R(k) == in.m_data[3 * k + 2]
        Y(k) == MulMicro(R(k), 299000) + MulMicro(G(k), 587000)
                    + MulMicro(B(k), 114000)
        px == Tabulate([k \in 0 .. n - 1 |->
                 LET y == Y(k)
                 IN  <<y,
                       MulMicro(R(k) - y, 713000) + Fx(128),
                       MulMicro(B(k) - y, 564000) + Fx(128)>>])
    IN  WithData(in.m_width, in.m_height, 3,
                 [k \in 0 .. 3 * n - 1 |-> px[k \div 3][(k % 3) + 1]])

\* the three samples of one pixel before the clamp, in B, G, R order
UnclampedBgr(in, k) ==
    LET Y  == in.m_data[3 * k]
        Cr == in.m_data[3 * k + 1]
        Cb == in.m_data[3 * k + 2]
    IN  << Y + MulMicro(Cb - Fx(128), 1772000),
           Y - MulMicro(Cb - Fx(128), 344136) - MulMicro(Cr - Fx(128), 714136),
           Y + MulMicro(Cr - Fx(128), 1402000) >>

\* ycrcbToBgr without the clamp of B, G and R
ycrcbToBgrNoClamp(in) ==
    LET n == in.m_width * in.m_height
        px == Tabulate([k \in 0 .. n - 1 |-> UnclampedBgr(in, k)])
    IN  WithData(in.m_width, in.m_height, 3,
                 [k \in 0 .. 3 * n - 1 |-> px[k \div 3][(k % 3) + 1]])

\* ycrcbToBgr with the width and the height of its result exchanged
ycrcbToBgrTransposed(in) ==
    LET n == in.m_width * in.m_height
        px == Tabulate([k \in 0 .. n - 1 |-> UnclampedBgr(in, k)])
    IN  WithData(in.m_height, in.m_width, 3,
                 [k \in 0 .. 3 * n - 1 |-> Clamp255(px[k \div 3][(k % 3) + 1])])

\* ycrcbToBgr: each of B, G, R clamped to [0, 255]
ycrcbToBgr(in) ==
    LET n == in.m_width * in.m_height
        px == Tabulate([k \in 0 .. n - 1 |-> UnclampedBgr(in, k)])
    IN  WithData(in.m_width, in.m_height, 3,
                 [k \in 0 .. 3 * n - 1 |-> Clamp255(px[k \div 3][(k % 3) + 1])])

----------------------------------------------------------------------------
(* BlockTransform: transform.cpp.  Cosines and C(u) are scaled by COS_ONE. *)

COS_ONE == 2 ^ 14

\* cos(k * PI / 16) * COS_ONE for k = 0 .. 31
CosPi16 ==
    <<16384, 16069, 15137, 13623, 11585, 9102, 6270, 3196,
      0, -3196, -6270, -9102, -11585, -13623, -15137, -16069,
      -16384, -16069, -15137, -13623, -11585, -9102, -6270, -3196,
      0, 3196, 6270, 9102, 11585, 13623, 15137, 16069>>

\* std::cos(((2 * x + 1) * u * PI) / 16.0)
Cos16(x, u) == CosPi16[(((2 * x + 1) * u) % 32) + 1]

\* C(u) without the 1 / sqrt(2) of u = 0
CUnit(u) == COS_ONE

\* C(u): 1 / sqrt(2) for u = 0, else 1
C(u) == IF u = 0 THEN 11585 ELSE COS_ONE

\* a * (c / COS_ONE), rounded to the nearest multiple of 1 / ONE
MulCos(a, c) ==
    (a \div COS_ONE) * c + ((a % COS_ONE) * c + COS_ONE \div 2) \div COS_ONE

\* dst[u][v] = 0.25 * C(u) * C(v) * sum over x, y of
\* src[x][y] * cos((2x+1)u*PI/16) * cos((2y+1)v*PI/16); the sum over y is
\* taken first, once for each x and v
dct8x8(src) ==
    LET in == TabulateGrid(src)
        overY == TabulateGrid([x \in Idx8 |-> [v \in Idx8 |->
                     LET term(y) == MulCos(in[x][y], Cos16(y, v))
                     IN  Sum8(term)]])
    IN  TabulateGrid([u \in Idx8 |-> [v \in Idx8 |->
            LET term(x) == MulCos(overY[x][v], Cos16(x, u))
            IN  MulCos(Sum8(term), MulCos(MulCos(COS_ONE \div 4, C(u)), C(v)))]])

\* idct8x8 without the normalisation C(u) * C(v) of the first row and column
idct8x8Unnormalised(src) ==
    LET in == TabulateGrid(src)
        overV == TabulateGrid([u \in Idx8 |-> [y \in Idx8 |->
                     LET term(v) == MulCos(in[u][v], Cos16(y, v))
                     IN  Sum8(term)]])
    IN  TabulateGrid([x \in Idx8 |-> [y \in Idx8 |->
            LET term(u) == MulCos(overV[u][y], Cos16(x, u))
            IN  RoundDiv(Sum8(term), 4)]])

\* dst[x][y] = 0.25 * sum over u, v of C(u) * C(v) * src[u][v]
\* * cos((2x+1)u*PI/16) * cos((2y+1)v*PI/16); the sum over v is taken first,
\* once for each u and y
idct8x8(src) ==
    LET in == TabulateGrid(src)
        overV == TabulateGrid([u \in Idx8 |-> [y \in Idx8 |->
                     LET term(v) == MulCos(MulCos(in[u][v], C(v)), Cos16(y, v))
                     IN  Sum8(term)]])
    IN  TabulateGrid([x \in Idx8 |-> [y \in Idx8 |->
            LET term(u) == MulCos(MulCos(overV[u][y], C(u)), Cos16(x, u))
            IN  RoundDiv(Sum8(term), 4)]])

----------------------------------------------------------------------------
(* WaveletTransform: wavelet.cpp *)

\* v * INV_SQRT2, INV_SQRT2 = 0.70710678118654752440, rounded to the nearest
\* multiple of 1 / ONE: the constant is taken as
\* (11585 + 3891 / COS_ONE) / COS_ONE
MulInvSqrt2(v) == MulCos(v, 11585) + RoundDiv(MulCos(v, 3891), COS_ONE)

\* haar1d_fwd without the normalisation by 1 / sqrt(2): plain averages and
\* half differences
haar1d_fwd_halved(data, n) ==
    LET half == n \div 2
    IN  [k \in DOMAIN data |->
            IF k < half
            THEN RoundDiv(data[2 * k] + data[2 * k + 1], 2)
            ELSE IF k < 2 * half
            THEN RoundDiv(data[2 * (k - half)] - data[2 * (k - half) + 1], 2)
            ELSE data[k]]

\* haar1d_fwd: averages in [0, n/2), differences in [n/2, n); n is 8, 4 or 2
haar1d_fwd(data, n) ==
    LET half == n \div 2
    IN  [k \in DOMAIN data |->
            IF k < half
            THEN MulInvSqrt2(data[2 * k] + data[2 * k + 1])
            ELSE IF k < 2 * half
            THEN MulInvSqrt2(data[2 * (k - half)] - data[2 * (k - half) + 1])
            ELSE data[k]]

\* haar1d_inv: x[2k] = (avg[k] + det[k]) / sqrt(2), x[2k+1] = (avg[k] - det[k]) / sqrt(2)
haar1d_inv(data, n) ==
    LET half == n \div 2
    IN  [k \in DOMAIN data |->
            IF k < 2 * half
            THEN IF k % 2 = 0
                 THEN MulInvSqrt2(data[k \div 2] + data[k \div 2 + half])
                 ELSE MulInvSqrt2(data[k \div 2] - data[k \div 2 + half])
            ELSE data[k]]

\* one pass of dwt8x8 / idwt8x8 over the rows, or the columns, of the
\* top-left size x size corner of an 8x8 grid
Rows8(tmp, size, pass(_, _)) ==
    TabulateGrid([i \in Idx8 |-> IF i < size THEN pass(tmp[i], size) ELSE tmp[i]])

Cols8(tmp, size, pass(_, _)) ==
    LET col == TabulateGrid([j \in Idx8 |->
                   pass(Tabulate([i \in Idx8 |-> tmp[i][j]]), size)])
    IN  TabulateGrid([i \in Idx8 |-> [j \in Idx8 |->
            IF i < size /\ j < size THEN col[j][i] ELSE tmp[i][j]]])

RECURSIVE dwt8x8Loop(_, _)
\* while (size >= 2) { rows; columns; size /= 2; }
dwt8x8Loop(tmp, size) ==
    IF size >= 2
    THEN dwt8x8Loop(Cols8(Rows8(tmp, size, haar1d_fwd), size, haar1d_fwd),
                    size \div 2)
    ELSE tmp

dwt8x8(src) == dwt8x8Loop(TabulateGrid(src), 8)

RECURSIVE idwt8x8Loop(_, _)
\* while (size <= 8) { columns; rows; size *= 2; }
idwt8x8Loop(tmp, size) ==
    IF size <= 8
    THEN idwt8x8Loop(Rows8(Cols8(tmp, size, haar1d_inv), size, haar1d_inv),
                     size * 2)
    ELSE tmp

idwt8x8(src) == idwt8x8Loop(TabulateGrid(src), 2)

\* haar1d_fwd_n: as haar1d_fwd for any length; tmp is a zero-filled vector
haar1d_fwd_n(data, n) ==
    LET half == n \div 2
    IN  [k \in DOMAIN data |->
            IF k < half
            THEN MulInvSqrt2(data[2 * k] + data[2 * k + 1])
            ELSE IF k < 2 * half
            THEN MulInvSqrt2(data[2 * (k - half)] - data[2 * (k - half) + 1])
            ELSE IF k < n THEN 0 ELSE data[k]]

haar1d_inv_n(data, n) ==
    LET half == n \div 2
    IN  [k \in DOMAIN data |->
            IF k < 2 * half
            THEN IF k % 2 = 0
                 THEN MulInvSqrt2(data[k \div 2] + data[k \div 2 + half])
                 ELSE MulInvSqrt2(data[k \div 2] - data[k \div 2 + half])
            ELSE IF k < n THEN 0 ELSE data[k]]

RECURSIVE calcDwtLevelsLoop(_, _, _)
\* while (w >= 2 && h >= 2) { ++levels; w >>= 1; h >>= 1; }
calcDwtLevelsLoop(w, h, levels) ==
    IF w >= 2 /\ h >= 2
    THEN calcDwtLevelsLoop(w \div 2, h \div 2, levels + 1)
    ELSE levels

\* the count of the loop without the cap
calcDwtLevelsUncapped(width, height) == calcDwtLevelsLoop(width, height, 0)

\* calcDwtLevels: std::min(levels, 6)
calcDwtLevels(width, height) == Min(calcDwtLevelsLoop(width, height, 0), 6)

\* w & ~1
Even(w) == w - (w % 2)

\* one pass over the rows, or the columns, of the top-left tw x th region of
\* a row-major buffer of stride width
RowsN(data, width, tw, th, pass(_, _)) ==
    LET row == Tabulate([y \in 0 .. th - 1 |->
                   Tabulate(pass(Tabulate([k \in 0 .. tw - 1 |->
                                              data[y * width + k]]), tw))])
    IN  Tabulate([k \in DOMAIN data |->
            IF k \div width < th /\ k % width < tw
            THEN row[k \div width][k % width]
            ELSE data[k]])

ColsN(data, width, tw, th, pass(_, _)) ==
    LET col == Tabulate([x \in 0 .. tw - 1 |->
                   Tabulate(pass(Tabulate([k \in 0 .. th - 1 |->
                                              data[k * width + x]]), th))])
    IN  Tabulate([k \in DOMAIN data |->
            IF k \div width < th /\ k % width < tw
            THEN col[k % width][k \div width]
            ELSE data[k]])

RECURSIVE dwtImageLoop(_, _, _, _, _, _)
\* for (lev = 0; lev < levels; ++lev) { if (w < 2 || h < 2) break; ... }
dwtImageLoop(data, width, w, h, lev, levels) ==
    IF lev < levels /\ ~(w < 2 \/ h < 2)
    THEN LET wt == Even(w)
             ht == Even(h)
         IN  dwtImageLoop(
                 ColsN(RowsN(data, width, wt, ht, haar1d_fwd_n),
                       width, wt, ht, haar1d_fwd_n),
                 width, wt \div 2, ht \div 2, lev + 1, levels)
    ELSE data

dwtImage(data, width, height, levels) ==
    dwtImageLoop(Tabulate(data), width, width, height, 0, levels)

RECURSIVE fwdDims(_, _, _)
\* fwdW[lev], fwdH[lev] for lev = 0 .. levels-1, as <<fwdW[lev], fwdH[lev]>>
\* at position lev + 1
fwdDims(w, h, levels) ==
    IF levels <= 0 THEN <<>>
    ELSE <<<<Even(w), Even(h)>>>>
             \o fwdDims(Even(w) \div 2, Even(h) \div 2, levels - 1)

RECURSIVE idwtImageLoopFinestFirst(_, _, _, _)
\* the loop of idwtImage run from the finest level to the coarsest: step lev
\* undoes level Len(dims) - 1 - lev
idwtImageLoopFinestFirst(data, width, dims, lev) ==
    IF lev < 0 THEN data
    ELSE LET tw == dims[Len(dims) - lev][1]
             th == dims[Len(dims) - lev][2]
         IN  IF tw < 2 \/ th < 2
             THEN idwtImageLoopFinestFirst(data, width, dims, lev - 1)
             ELSE idwtImageLoopFinestFirst(
                      RowsN(ColsN(data, width, tw, th, haar1d_inv_n),
                            width, tw, th, haar1d_inv_n),
                      width, dims, lev - 1)

RECURSIVE idwtImageLoop(_, _, _, _)
\* for (lev = levels - 1; lev >= 0; --lev) { if (tw < 2 || th < 2) continue; ... }
\* (dims[lev + 1] holds level lev)
idwtImageLoop(data, width, dims, lev) ==
    IF lev < 0 THEN data
    ELSE LET tw == dims[lev + 1][1]
             th == dims[lev + 1][2]
         IN  IF tw < 2 \/ th < 2
             THEN idwtImageLoop(data, width, dims, lev - 1)
             ELSE idwtImageLoop(
                      RowsN(ColsN(data, width, tw, th, haar1d_inv_n),
                            width, tw, th, haar1d_inv_n),
                      width, dims, lev - 1)

idwtImage(data, width, height, levels) ==
    IF levels <= 0 THEN data
    ELSE idwtImageLoop(Tabulate(data), width, fwdDims(width, height, levels),
                       levels - 1)

RECURSIVE dwtQuantStepScan(_, _, _, _, _, _)
\* the scan of dwtQuantStep from lev down to 0, then the LL step
dwtQuantStepScan(x, y, dims, lev, levels, baseStep) ==
    IF lev < 0 THEN Max(Fx(1), RoundDiv(baseStep, 2 ^ levels))
    ELSE LET tw == dims[lev + 1][1]
             th == dims[lev + 1][2]
             inBlock == x < tw /\ y < th
             inLL == x < tw \div 2 /\ y < th \div 2
         IN  IF inBlock /\ ~inLL
             THEN Max(Fx(1), RoundDiv(baseStep, 2 ^ lev))
             ELSE dwtQuantStepScan(x, y, dims, lev - 1, levels, baseStep)

\* the step of the finest level whose region holds (x, y), the quadrant of
\* the averages included
dwtQuantStepFinestFirst(x, y, width, height, levels, baseStep) ==
    LET dims == fwdDims(width, height, levels)
        hit == {lev \in 0 .. levels - 1 :
                   x < dims[lev + 1][1] /\ y < dims[lev + 1][2]}
    IN  IF hit = {} THEN Max(Fx(1), RoundDiv(baseStep, 2 ^ levels))
        ELSE Max(Fx(1), RoundDiv(baseStep, 2 ^ (CHOOSE l \in hit : \A m \in hit : l <= m)))

\* dwtQuantStep: the scan from the coarsest level to the finest
dwtQuantStep(x, y, width, height, levels, baseStep) ==
    dwtQuantStepScan(x, y, fwdDims(width, height, levels), levels - 1,
                     levels, baseStep)

----------------------------------------------------------------------------
(* The codec instance *)

NoCodec == [exists |-> FALSE]

ChromaModes == {"CS_444", "CS_422", "CS_420"}
TransformTypes == {"DCT", "DWT"}

\* ImageCodec::ImageCodec.  The two table members have no initializer and
\* generateQuantizationTables() runs only if (m_enableQuantization): otherwise
\* the members are never written, and the record has no value for them.
ImageCodecCtor(quality, enableQuantization, cs, transform) ==
    IF enableQuantization
    THEN [exists |-> TRUE,
          m_quality |-> quality,
          m_enableQuantization |-> enableQuantization,
          m_chromaSubsampling |-> cs,
          m_transformType |-> transform,
          m_lumaQuantTable |-> generateQuantizationTables(quality).luma,
          m_chromaQuantTable |-> generateQuantizationTables(quality).chroma,
          m_lastBitEstimate |-> 0]
    ELSE [exists |-> TRUE,
          m_quality |-> quality,
          m_enableQuantization |-> enableQuantization,
          m_chromaSubsampling |-> cs,
          m_transformType |-> transform,
          m_lastBitEstimate |-> 0]

\* the table members have been written
TablesWritten(c) == "m_lumaQuantTable" \in DOMAIN c

\* a read that takes the luma table whatever isChroma is
ReadLumaTable(c, isChroma, storage) ==
    IF TablesWritten(c) THEN c.m_lumaQuantTable ELSE storage

\* what a read of a table member yields: the member if it has been written,
\* otherwise whatever its storage holds
ReadTable(c, isChroma, storage) ==
    IF TablesWritten(c)
    THEN IF isChroma THEN c.m_chromaQuantTable ELSE c.m_lumaQuantTable
    ELSE storage

\* the qualities the documentation allows: 1 .. 100
AllQualities == 1 .. 100

\* Construct the codec instance with a quality drawn from Q.
Construct(Q) ==
    /\ codec = NoCodec
    /\ \E quality \in Q, enableQuantization \in BOOLEAN,
          cs \in ChromaModes, transform \in TransformTypes :
            codec' = ImageCodecCtor(quality, enableQuantization, cs, transform)
    /\ last' = "construct"
    /\ UNCHANGED <<image, output, planes, debug, wav, analysis, g_session, g_artifact_gain, ret>>

Init ==
    /\ codec = NoCodec
    /\ image = NoImage
    /\ output = NoImage
    /\ planes = <<>>
    /\ debug = <<>>
    /\ g_session = <<>>
    /\ g_artifact_gain = <<>>
    /\ ret = <<>>
    /\ wav = <<>>
    /\ analysis = <<>>
    /\ last = "init"

----------------------------------------------------------------------------
(* Table generation over the whole documented quality range *)

NextTables == Construct(AllQualities)

SpecTables == Init /\ [][NextTables]_vars

----------------------------------------------------------------------------
(* Construction by a caller that hands over any quality: the constructor   *)
(* takes a double and process_image of the web bridge passes the int it    *)
(* got from JavaScript                                                     *)

AnyQualities == -MaxQualityArg .. MaxQualityArg

NextConfig == Construct(AnyQualities)

SpecConfig == Init /\ [][NextConfig]_vars

----------------------------------------------------------------------------
(* The pipeline: ImageCodec.cpp *)

RECURSIVE Log2Fx(_)
\* std::log2(val) for val > 0, exact at the powers of two and linear between
\* two neighbouring ones
Log2Fx(val) ==
    IF val >= 2 * ONE THEN ONE + Log2Fx(val \div 2)
    ELSE IF val < ONE THEN Log2Fx(2 * val) - ONE
    ELSE val - ONE

\* the estimate of one coefficient: 0.5 if |value| < 0.5, else log2(|value|) + 3
CoeffBits(c) ==
    IF Abs(c) < ONE \div 2 THEN ONE \div 2 ELSE Log2Fx(Abs(c)) + Fx(3)

estimateBlockBits(block) ==
    LET bits(i, j) == CoeffBits(block[i][j]) IN Sum64(bits)

RECURSIVE SumRange(_, _, _)
\* f[lo] + ... + f[hi]
SumRange(f, lo, hi) ==
    IF lo > hi THEN 0
    ELSE IF lo = hi THEN f[lo]
    ELSE SumRange(f, lo, (lo + hi) \div 2) + SumRange(f, (lo + hi) \div 2 + 1, hi)

\* dwtEstimateBits: the estimate of every coefficient plus a 400-bit header
dwtEstimateBits(data, width, height) ==
    SumRange([k \in 0 .. width * height - 1 |-> CoeffBits(data[k])],
             0, width * height - 1) + Fx(400)

\* the product of the quotient cut towards zero, as a conversion to int
\* would leave it
RequantizeTruncating(coeff, step) ==
    IF coeff >= 0 THEN (coeff \div step) * step ELSE -(((-coeff) \div step) * step)

\* std::round(coeff / step) * step
Requantize(coeff, step) == RoundDiv(coeff, step) * step

\* What processChannel's loop does for the block at (x, y) is given as the
\* samples it writes (cells, and their values by sample index) and the bits
\* it adds to m_lastBitEstimate.

\* a boundary block written nowhere
skipBlock(channel, x, y) ==
    [cells |-> {}, value |-> channel.m_data, bits |-> 0]

\* if (blockWidth < 8 || blockHeight < 8): copy boundary blocks without
\* processing
copyBlock(channel, x, y) ==
    LET w == channel.m_width
        blockWidth == Min(8, w - x)
        blockHeight == Min(8, channel.m_height - y)
    IN  [cells |-> {(y + i) * w + (x + j) :
                       i \in 0 .. blockHeight - 1, j \in 0 .. blockWidth - 1},
         value |-> channel.m_data,
         bits |-> 0]

\* a full block: level shift, dct8x8, quantize and dequantize, idct8x8
transformBlock(channel, quantTable, enableQuantization, x, y) ==
    LET w == channel.m_width
        block == [i \in Idx8 |-> [j \in Idx8 |->
                     channel.m_data[(y + i) * w + (x + j)] - Fx(128)]]
        dctBlock == dct8x8(block)
        quantized == TabulateGrid([i \in Idx8 |-> [j \in Idx8 |->
                         Requantize(dctBlock[i][j], quantTable[i][j])]])
        reconBlock == idct8x8(IF enableQuantization THEN quantized ELSE dctBlock)
    IN  [cells |-> {(y + i) * w + (x + j) : i \in Idx8, j \in Idx8},
         value |-> [k \in 0 .. w * channel.m_height - 1 |->
                       reconBlock[Min(7, Max(0, (k \div w) - y))]
                                 [Min(7, Max(0, (k % w) - x))] + Fx(128)],
         bits |-> IF enableQuantization THEN estimateBlockBits(quantized) ELSE 0]

processBlock(channel, quantTable, enableQuantization, x, y) ==
    IF Min(8, channel.m_width - x) < 8 \/ Min(8, channel.m_height - y) < 8
    THEN copyBlock(channel, x, y)
    ELSE transformBlock(channel, quantTable, enableQuantization, x, y)

RECURSIVE processChannelLoop(_, _, _, _, _)
\* for (y = 0; y < height; y += 8) for (x = 0; x < width; x += 8): block k of
\* the raster order; acc is the reconstructed plane so far, the set of
\* samples written so far, and the bits added so far
processChannelLoop(channel, quantTable, enableQuantization, k, acc) ==
    LET nbx == (channel.m_width + 7) \div 8
        nby == (channel.m_height + 7) \div 8
    IN  IF k >= nbx * nby THEN acc
        ELSE LET b == processBlock(channel, quantTable, enableQuantization,
                                   (k % nbx) * 8, (k \div nbx) * 8)
             IN  processChannelLoop(channel, quantTable, enableQuantization, k + 1,
                     [data |-> Tabulate([n \in DOMAIN acc.data |->
                                   IF n \in b.cells THEN b.value[n] ELSE acc.data[n]]),
                      written |-> acc.written \cup b.cells,
                      bits |-> acc.bits + b.bits])

\* processChannel: the reconstructed plane, the samples it wrote, and what it
\* added to m_lastBitEstimate
processChannel(channel, quantTable, enableQuantization) ==
    LET acc == processChannelLoop(channel, quantTable, enableQuantization, 0,
                   [data |-> Image(channel.m_width, channel.m_height, 1).m_data,
                    written |-> {},
                    bits |-> 0])
    IN  [image |-> WithData(channel.m_width, channel.m_height, 1, acc.data),
         written |-> acc.written,
         bits |-> acc.bits]

\* (quality < 50 ? 5000 / quality : 200 - 2 * quality) / 100 * 32
DwtBaseStep(quality) ==
    LET scale == QualityScale(quality)
    IN  RoundDiv(32 * scale[1] * ONE, scale[2])

\* (n + stride - 1) & ~(stride - 1)
RoundUp(n, stride) == ((n + stride - 1) \div stride) * stride

processChannelDWT(channel, quality, enableQuantization) ==
    LET W_orig == channel.m_width
        H_orig == channel.m_height
        levels == calcDwtLevels(W_orig, H_orig)
        stride == 2 ^ levels
        W == RoundUp(W_orig, stride)
        H == RoundUp(H_orig, stride)
        baseStep == DwtBaseStep(quality)
        buf == Tabulate([k \in 0 .. W * H - 1 |->
                   channel.m_data[Min(k \div W, H_orig - 1) * W_orig
                                      + Min(k % W, W_orig - 1)] - Fx(128)])
        coeffs == dwtImage(buf, W, H, levels)
        quantized == IF enableQuantization
                     THEN Tabulate([k \in 0 .. W * H - 1 |->
                              Requantize(coeffs[k],
                                  dwtQuantStep(k % W, k \div W, W, H, levels, baseStep))])
                     ELSE coeffs
        recon == idwtImage(quantized, W, H, levels)
    IN  [image |-> WithData(W_orig, H_orig, 1,
                       [k \in 0 .. W_orig * H_orig - 1 |->
                           Clamp255(recon[(k \div W_orig) * W + (k % W_orig)] + Fx(128))]),
         written |-> 0 .. W_orig * H_orig - 1,
         bits |-> dwtEstimateBits(quantized, W, H)]

\* the factors by which a mode shrinks a plane: <<horizontal, vertical>>
SubsamplingFactors(cs) ==
    <<IF cs = "CS_444" THEN 1 ELSE 2, IF cs = "CS_420" THEN 2 ELSE 1>>

downsampleChannel(channel, cs) ==
    IF cs = "CS_444" THEN channel
    ELSE
    LET originalWidth == channel.m_width
        originalHeight == channel.m_height
        newWidth == (originalWidth + 1) \div 2
        newHeight == IF cs = "CS_420" THEN (originalHeight + 1) \div 2
                                      ELSE originalHeight
        f == SubsamplingFactors(cs)
        covered(x, y) == {<<sx, sy>> \in (x * f[1] .. x * f[1] + f[1] - 1)
                                         \X (y * f[2] .. y * f[2] + f[2] - 1) :
                             sx < originalWidth /\ sy < originalHeight}
        term(S, sx, sy) == IF <<sx, sy>> \in S THEN at(channel, sx, sy, 0) ELSE 0
        sum(S, x, y) == term(S, x * f[1], y * f[2])
                            + term(S, x * f[1] + 1, y * f[2])
                            + term(S, x * f[1], y * f[2] + 1)
                            + term(S, x * f[1] + 1, y * f[2] + 1)
    IN  WithData(newWidth, newHeight, 1,
            [k \in 0 .. newWidth * newHeight - 1 |->
                LET x == k % newWidth
                    y == k \div newWidth
                    count == Cardinality(covered(x, y))
                IN  IF count > 0
                    THEN RoundDiv(sum(covered(x, y), x, y), count)
                    ELSE at(channel, Min(x * f[1], originalWidth - 1),
                            Min(y * f[2], originalHeight - 1), 0)])

\* upsampleChannel without the division of the target coordinates
upsampleChannelUnscaled(channel, targetWidth, targetHeight, cs) ==
    IF cs = "CS_444" THEN channel
    ELSE WithData(targetWidth, targetHeight, 1,
             [k \in 0 .. targetWidth * targetHeight - 1 |->
                 at(channel, Min(k % targetWidth, channel.m_width - 1),
                    Min(k \div targetWidth, channel.m_height - 1), 0)])

upsampleChannel(channel, targetWidth, targetHeight, cs) ==
    IF cs = "CS_444" THEN channel
    ELSE
    LET f == SubsamplingFactors(cs)
    IN  WithData(targetWidth, targetHeight, 1,
            [k \in 0 .. targetWidth * targetHeight - 1 |->
                at(channel, Min((k % targetWidth) \div f[1], channel.m_width - 1),
                   Min((k \div targetWidth) \div f[2], channel.m_height - 1), 0)])

\* (m_transformType == TransformType::DWT) ? processChannelDWT(channel)
\*                                          : processChannel(channel, table)
\* processChannel gets a pointer to the table and reads through it only
\* if (m_enableQuantization)
processPlane(c, channel, isChroma) ==
    IF c.m_transformType = "DWT"
    THEN processChannelDWT(channel, c.m_quality, c.m_enableQuantization)
    ELSE processChannel(channel, ReadTable(c, isChroma, ConstTable(0)),
                        c.m_enableQuantization)

\* the first part of process with the luma plane resampled as the chroma
\* planes are: down and up again
splitPlanesLumaResampled(c, bgrImage) ==
    LET cs == c.m_chromaSubsampling
        ycrcbImage == bgrToYCrCb(bgrImage)
    IN  [Y |-> upsampleChannel(downsampleChannel(Channel(ycrcbImage, 0), cs),
                               bgrImage.m_width, bgrImage.m_height, cs),
         Cr |-> downsampleChannel(Channel(ycrcbImage, 1), cs),
         Cb |-> downsampleChannel(Channel(ycrcbImage, 2), cs)]

\* ImageCodec::process, first part: the colour conversion, the split into
\* planes and the downsampling of the chroma planes
splitPlanes(c, bgrImage) ==
    LET cs == c.m_chromaSubsampling
        ycrcbImage == bgrToYCrCb(bgrImage)
        Y_orig == Channel(ycrcbImage, 0)
        Cr_orig == Channel(ycrcbImage, 1)
        Cb_orig == Channel(ycrcbImage, 2)
    IN  [Y |-> Y_orig,
         Cr |-> downsampleChannel(Cr_orig, cs),
         Cb |-> downsampleChannel(Cb_orig, cs)]

\* ImageCodec::process, second part: reconY, reconCr_sub and reconCb_sub, in
\* this order; only the luma plane uses the luma table
processPlanes(c, in) ==
    Tabulate([p \in {"Y", "Cr", "Cb"} |-> processPlane(c, in[p], p # "Y")])

\* ImageCodec::process, on entry: m_lastBitEstimate = 0.0
EntryEstimateKept(c) == c.m_lastBitEstimate

EntryEstimate(c) == 0

\* ImageCodec::process, last part: the upsampling of the chroma planes, the
\* merge and the colour conversion; the returned image, the new
\* m_lastBitEstimate, and the planes on the way
mergePlanes(c, width, height, in, recon) ==
    LET cs == c.m_chromaSubsampling
        reconCr_final == upsampleChannel(recon.Cr.image, width, height, cs)
        reconCb_final == upsampleChannel(recon.Cb.image, width, height, cs)
        merged == WithData(width, height, 3,
                      [k \in 0 .. 3 * width * height - 1 |->
                          IF k % 3 = 0 THEN recon.Y.image.m_data[k \div 3]
                          ELSE IF k % 3 = 1 THEN reconCr_final.m_data[k \div 3]
                          ELSE reconCb_final.m_data[k \div 3]])
    IN  [output |-> ycrcbToBgr(merged),
         m_lastBitEstimate |-> EntryEstimate(c) + recon.Y.bits + recon.Cr.bits
                                                + recon.Cb.bits,
         planes |-> [Y |-> [in |-> in.Y, out |-> recon.Y.image,
                            written |-> recon.Y.written,
                            bits |-> recon.Y.bits],
                     Cr |-> [in |-> in.Cr, out |-> recon.Cr.image,
                             written |-> recon.Cr.written,
                             bits |-> recon.Cr.bits],
                     Cb |-> [in |-> in.Cb, out |-> recon.Cb.image,
                             written |-> recon.Cb.written,
                             bits |-> recon.Cb.bits],
                     merged |-> merged]]

\* the planes to process, then processed, then merged
processSplit(c, bgrImage, in) ==
    mergePlanes(c, bgrImage.m_width, bgrImage.m_height, in, processPlanes(c, in))

\* ImageCodec::process
process(c, bgrImage) == processSplit(c, bgrImage, splitPlanes(c, bgrImage))

\* BlockDebugData empty = {}
EmptyBlockDebugData ==
    [original |-> ConstTable(0), coefficients |-> ConstTable(0),
     quantTable |-> ConstTable(0), quantized |-> ConstTable(0),
     reconstructed |-> ConstTable(0)]

\* the width of an int
IntBits == 32

\* block * 8 does not fit an int: the product is undefined behaviour
BlockStartOverflows(block) == block >= 2 ^ (IntBits - 4)

\* int start = block * 8 for block >= 0, as the product comes out of a
\* build that wraps: the low IntBits bits of the product, read as signed
BlockStart(block) ==
    IF (block % 2 ^ (IntBits - 3)) >= 2 ^ (IntBits - 4)
    THEN ((block % 2 ^ (IntBits - 3)) - 2 ^ (IntBits - 3)) * 8
    ELSE (block % 2 ^ (IntBits - 3)) * 8

\* the positions <<x, y>> that inspectBlock reads through channelData: those
\* that pass if (x < width && y < height)
inspectBlockReads(c, channel, blockX, blockY) ==
    IF c.m_transformType = "DWT" THEN {}
    ELSE {p \in (BlockStart(blockX) .. BlockStart(blockX) + 7)
                    \X (BlockStart(blockY) .. BlockStart(blockY) + 7) :
             p[1] < channel.m_width /\ p[2] < channel.m_height}

\* the position <<x, y>> is a sample of the plane
InPlane(channel, p) ==
    p[1] \in 0 .. channel.m_width - 1 /\ p[2] \in 0 .. channel.m_height - 1

\* channelData[y * width + x] for a position that passed the test of
\* inspectBlock: the sample if the position is in the plane; otherwise
\* another sample of the buffer if the index falls into it, and whatever the
\* memory outside the buffer holds (garbage) if it does not
inspectBlockRead(channel, x, y, garbage) ==
    IF InPlane(channel, <<x, y>>) THEN channel.m_data[y * channel.m_width + x]
    ELSE IF y < 0 \/ x < -(channel.m_width * channel.m_height) THEN garbage
    ELSE IF y * channel.m_width + x >= 0 THEN channel.m_data[y * channel.m_width + x]
    ELSE garbage

\* ImageCodec::inspectBlock past its early return; storage is what memory
\* the program never wrote holds: the tables if the constructor never wrote
\* them, and the bytes outside the buffer of the plane
inspectBlockDCT(c, channel, blockX, blockY, isChroma, storage) ==
    LET quantTable == ReadTable(c, isChroma, storage)
        startX == BlockStart(blockX)
        startY == BlockStart(blockY)
        original == TabulateGrid([i \in Idx8 |-> [j \in Idx8 |->
                        IF startX + j < channel.m_width /\ startY + i < channel.m_height
                        THEN inspectBlockRead(channel, startX + j, startY + i,
                                              storage[i][j])
                        ELSE 0]])
        coefficients == dct8x8([i \in Idx8 |-> [j \in Idx8 |->
                                   original[i][j] - Fx(128)]])
        quantized == TabulateGrid([i \in Idx8 |-> [j \in Idx8 |->
                         IF c.m_enableQuantization
                         THEN Fx(RoundDiv(coefficients[i][j], quantTable[i][j]))
                         ELSE coefficients[i][j]]])
        dequantized == [i \in Idx8 |-> [j \in Idx8 |->
                           IF c.m_enableQuantization
                           THEN (quantized[i][j] \div ONE) * quantTable[i][j]
                           ELSE quantized[i][j]]]
        reconBlock == idct8x8(dequantized)
    IN  [original |-> original,
         coefficients |-> coefficients,
         quantTable |-> quantTable,
         quantized |-> quantized,
         reconstructed |-> TabulateGrid([i \in Idx8 |-> [j \in Idx8 |->
                               reconBlock[i][j] + Fx(128)]])]

\* inspectBlock without the early return of the wavelet configuration
inspectBlockAlways(c, channel, blockX, blockY, isChroma, storage) ==
    inspectBlockDCT(c, channel, blockX, blockY, isChroma, storage)

\* ImageCodec::inspectBlock
inspectBlock(c, channel, blockX, blockY, isChroma, storage) ==
    IF c.m_transformType = "DWT" THEN EmptyBlockDebugData
    ELSE inspectBlockDCT(c, channel, blockX, blockY, isChroma, storage)

----------------------------------------------------------------------------
(* CodecAnalysis: CodecAnalysis.cpp.  The images hold fixed-point samples; *)
(* the metrics read them as doubles and compute in floating point.  A      *)
(* result carries, besides the value returned, the number of samples the   *)
(* call read.                                                              *)

\* the two images hold the same number of samples
SameSampleCount(img1, img2) ==
    img1.m_width * img1.m_height * img1.m_channels
        = img2.m_width * img2.m_height * img2.m_channels

\* the test both metrics and the artifact map start with, negated
SameShape(img1, img2) ==
    /\ img1.m_width = img2.m_width
    /\ img1.m_height = img2.m_height
    /\ img1.m_channels = img2.m_channels

RECURSIVE FAccumulate(_, _, _, _)
\* acc += f[k] for k = lo, lo + 1, ..., hi - 1, in this order; the sum of
\* the first half is a value before the second half starts
FAccumulate(acc, f, lo, hi) ==
    IF hi <= lo THEN acc
    ELSE IF hi = lo + 1 THEN FAdd(acc, f[lo])
    ELSE CHOOSE sum \in {FAccumulate(left, f, (lo + hi) \div 2, hi) :
                             left \in {FAccumulate(acc, f, lo, (lo + hi) \div 2)}} : TRUE

\* the literal 1e-10
MseThreshold == FDiv(FDiv(Float(1), Float(100000)), Float(100000))

\* the mean of the squared differences of the samples; the difference of
\* two samples is exact in a double
MeanSquaredError(I1, I2, totalSize) ==
    FDiv(FAccumulate(<<0, 0>>,
                     [i \in 0 .. totalSize - 1 |->
                         FMul(FromFx(I1.m_data[i] - I2.m_data[i]),
                              FromFx(I1.m_data[i] - I2.m_data[i]))],
                     0, totalSize),
         Float(totalSize))

\* 10.0 * log10((255.0 * 255.0) / mse), in fixed point
PsnrOfMse(mse) == TenLog10(FDiv(FMul(Float(255), Float(255)), mse))

\* the same without the test of the threshold
PsnrValueNoCeiling(mse) ==
    IF mse[1] = 0 THEN Fx(1000) ELSE PsnrOfMse(mse)

\* if (mse <= 1e-10) return 100.0; return 10.0 * log10(...)
PsnrValue(mse) ==
    IF FLe(mse, MseThreshold) THEN Fx(100) ELSE PsnrOfMse(mse)

\* CodecAnalysis::computePSNR, for images that are not empty
computePSNR(I1, I2) ==
    IF ~SameShape(I1, I2)
    THEN [value |-> 0, mse |-> <<0, 0>>, reads |-> 0]
    ELSE LET totalSize == I1.m_width * I1.m_height * I1.m_channels
         IN  LET mse == MeanSquaredError(I1, I2, totalSize)
             IN  [value |-> PsnrValue(mse), mse |-> mse, reads |-> 2 * totalSize]

kernelSize == 8
stride == 4

\* the positions (cx, cy) that the loops of getMean, getVariance and
\* getCovariance visit and find inside the plane, in the order of the loops:
\* j = -half .. half outside, i = -half .. half inside, half = kernelSize / 2
WindowCells(width, height, x, y, ks) ==
    LET half == ks \div 2
        side == 2 * half + 1
        inPlane(c) == c[1] >= 0 /\ c[1] < width /\ c[2] >= 0 /\ c[2] < height
    IN  SelectSeq([k \in 1 .. side * side |->
                      <<x + ((k - 1) % side) - half, y + ((k - 1) \div side) - half>>],
                  inPlane)

\* d[cy * width + cx] of each position of the window, as doubles
WindowSamples(d, width, cells) ==
    Tabulate([k \in 1 .. Len(cells) |-> FromFx(d[cells[k][2] * width + cells[k][1]])])

\* getMean / getVariance / getCovariance, given the samples of the window
getMean(samples) ==
    IF Len(samples) > 0
    THEN FDiv(FAccumulate(<<0, 0>>, samples, 1, Len(samples) + 1), Float(Len(samples)))
    ELSE <<0, 0>>

getVariance(samples, mean) ==
    IF Len(samples) > 0
    THEN FDiv(FAccumulate(<<0, 0>>,
                          [k \in 1 .. Len(samples) |->
                              FMul(FSub(samples[k], mean), FSub(samples[k], mean))],
                          1, Len(samples) + 1),
              Float(Len(samples)))
    ELSE <<0, 0>>

\* getCovariance dividing by count - 1, the sample covariance
getCovarianceUnbiased(samples1, samples2, mean1, mean2) ==
    IF Len(samples1) > 1
    THEN FDiv(FAccumulate(<<0, 0>>,
                          [k \in 1 .. Len(samples1) |->
                              FMul(FSub(samples1[k], mean1), FSub(samples2[k], mean2))],
                          1, Len(samples1) + 1),
              Float(Len(samples1) - 1))
    ELSE <<0, 0>>

getCovariance(samples1, samples2, mean1, mean2) ==
    IF Len(samples1) > 0
    THEN FDiv(FAccumulate(<<0, 0>>,
                          [k \in 1 .. Len(samples1) |->
                              FMul(FSub(samples1[k], mean1), FSub(samples2[k], mean2))],
                          1, Len(samples1) + 1),
              Float(Len(samples1)))
    ELSE <<0, 0>>

\* the constants of computeSSIM: 6.5025 = (0.01 * 255)^2, 58.5225 = (0.03 * 255)^2
C1 == FDiv(Float(65025), Float(10000))
C2 == FDiv(Float(585225), Float(10000))

\* the index of one window, from its statistics
\* num = (2 * ux * uy + C1) * (2 * sigxy + C2)
\* den = (ux * ux + uy * uy + C1) * (sigx2 + sigy2 + C2)
SsimRatio(ux, uy, sigx2, sigy2, sigxy) ==
    FDiv(FMul(FAdd(FMul(FMul(Float(2), ux), uy), C1),
              FAdd(FMul(Float(2), sigxy), C2)),
         FMul(FAdd(FAdd(FMul(ux, ux), FMul(uy, uy)), C1),
              FAdd(FAdd(sigx2, sigy2), C2)))

\* one turn of the loops of computeSSIM, at the anchor (x, y): the window's
\* anchor, the number of samples its statistics cover, and its index
SsimWindowOf(s1, s2, x, y) ==
    LET ux == getMean(s1)
        uy == getMean(s2)
    IN  [x |-> x, y |-> y, count |-> Len(s1),
         index |-> SsimRatio(ux, uy, getVariance(s1, ux), getVariance(s2, uy),
                             getCovariance(s1, s2, ux, uy))]

SsimWindow(d1, d2, width, height, x, y) ==
    LET cells == WindowCells(width, height, x, y, kernelSize)
    IN  SsimWindowOf(WindowSamples(d1, width, cells),
                     WindowSamples(d2, width, cells), x, y)

\* the windows of computeSSIM in the order of its loops:
\* for (y = 0; y < height; y += stride) for (x = 0; x < width; x += stride)
SsimWindows(I1, I2) ==
    LET nx == (I1.m_width + stride - 1) \div stride
        ny == (I1.m_height + stride - 1) \div stride
    IN  Tabulate([k \in 1 .. nx * ny |->
            SsimWindow(I1.m_data, I2.m_data, I1.m_width, I1.m_height,
                       stride * ((k - 1) % nx), stride * ((k - 1) \div nx))])

\* blocks > 0 ? mssim / blocks : 0.0; each window reads its samples six
\* times: twice for the means, twice for the variances, twice for the
\* covariance
SsimOfWindows(windows) ==
    [value |-> IF Len(windows) > 0
               THEN FDiv(FAccumulate(<<0, 0>>,
                                     [k \in 1 .. Len(windows) |-> windows[k].index],
                                     1, Len(windows) + 1),
                         Float(Len(windows)))
               ELSE <<0, 0>>,
     reads |-> SumRange([k \in 1 .. Len(windows) |-> 6 * windows[k].count],
                        1, Len(windows)),
     windows |-> [k \in 1 .. Len(windows) |->
                     [x |-> windows[k].x, y |-> windows[k].y,
                      count |-> windows[k].count, index |-> windows[k].index]]]

\* CodecAnalysis::computeSSIM
computeSSIM(I1, I2) ==
    IF ~SameShape(I1, I2)
    THEN [value |-> <<0, 0>>, reads |-> 0, windows |-> <<>>]
    ELSE SsimOfWindows(SsimWindows(I1, I2))

\* computeArtifactMap without the std::min(255.0, ...)
computeArtifactMapNoCap(img1, img2, gain) ==
    IF ~SameShape(img1, img2)
    THEN [thrown |-> "invalid_argument"]
    ELSE [thrown |-> "none",
          image |-> WithData(img1.m_width, img1.m_height, img1.m_channels,
                        [i \in 0 .. img1.m_width * img1.m_height * img1.m_channels - 1 |->
                            MulMicro(Abs(img1.m_data[i] - img2.m_data[i]), gain)])]

\* CodecAnalysis::computeArtifactMap; gain is in millionths (5.0 by
\* default).  A mismatch of the shapes throws std::invalid_argument.
DefaultGain == 5000000
computeArtifactMap(img1, img2, gain) ==
    IF ~SameShape(img1, img2)
    THEN [thrown |-> "invalid_argument"]
    ELSE [thrown |-> "none",
          image |-> WithData(img1.m_width, img1.m_height, img1.m_channels,
                        [i \in 0 .. img1.m_width * img1.m_height * img1.m_channels - 1 |->
                            Min(Fx(255),
                                MulMicro(Abs(img1.m_data[i] - img2.m_data[i]), gain))])]

\* the split loop of computeMetrics: plane c of the converted image, of the
\* shape of the original; the loop runs over the pixels of the original
SplitPlane(ycrcb, width, height, c) ==
    WithData(width, height, 1, [i \in 0 .. width * height - 1 |-> ycrcb.m_data[3 * i + c]])

\* CodecAnalysis::computeMetrics of two three-channel images.  If the
\* reconstructed image has fewer pixels than the original, the split loop
\* reads past the end of its converted buffer: the read faults, or yields
\* values that are used for metrics nothing returns, since the shapes differ
\* and computeArtifactMap throws at the end.
computeMetrics(originalBgr, reconstructedBgr, pastTheEnd) ==
    IF SameShape(originalBgr, reconstructedBgr)
    THEN LET o == bgrToYCrCb(originalBgr)
             r == bgrToYCrCb(reconstructedBgr)
             w == originalBgr.m_width
             h == originalBgr.m_height
         IN  [thrown |-> "none",
              psnrY |-> computePSNR(SplitPlane(o, w, h, 0), SplitPlane(r, w, h, 0)).value,
              psnrCr |-> computePSNR(SplitPlane(o, w, h, 1), SplitPlane(r, w, h, 1)).value,
              psnrCb |-> computePSNR(SplitPlane(o, w, h, 2), SplitPlane(r, w, h, 2)).value,
              ssimY |-> computeSSIM(SplitPlane(o, w, h, 0), SplitPlane(r, w, h, 0)).value,
              ssimCr |-> computeSSIM(SplitPlane(o, w, h, 1), SplitPlane(r, w, h, 1)).value,
              ssimCb |-> computeSSIM(SplitPlane(o, w, h, 2), SplitPlane(r, w, h, 2)).value,
              artifactMap |-> computeArtifactMap(originalBgr, reconstructedBgr,
                                                 DefaultGain).image]
    ELSE IF /\ reconstructedBgr.m_width * reconstructedBgr.m_height
                   < originalBgr.m_width * originalBgr.m_height
            /\ pastTheEnd = "fault"
    THEN [thrown |-> "fault"]
    ELSE [thrown |-> computeArtifactMap(originalBgr, reconstructedBgr,
                                       DefaultGain).thrown]

----------------------------------------------------------------------------
(* The codec under its callers *)

\* createTestImage of test_imagecodec.cpp (pattern 1) and an image of
\* saturated colours with hard edges (pattern 2)
TestImage(width, height, pat) ==
    WithData(width, height, 3,
        [k \in 0 .. 3 * width * height - 1 |->
            LET x == (k \div 3) % width
                y == (k \div 3) \div width
            IN  IF pat = 1
                THEN Fx((IF k % 3 = 0 THEN x ELSE IF k % 3 = 1 THEN y ELSE x + y) % 256)
                ELSE IF k % 3 = 0 THEN (IF (x \div 2 + y) % 2 = 0 THEN Fx(255) ELSE 0)
                ELSE IF k % 3 = 1 THEN (IF x % 3 = 0 THEN Fx(255) ELSE 0)
                ELSE (IF (x + y \div 3) % 2 = 0 THEN 0 ELSE Fx(255))])

\* the caller's images, as <<width, height, pattern>>: a single pixel, a
\* full block with partial blocks to its right and below, two full blocks in
\* a row
TestImages ==
    {<<1, 1, 2>>, <<8 + MaxPartial, 8 + MaxPartial, 1>>,
     <<8 + MaxPartial, 8 + MaxPartial, 2>>, <<16, 8, 2>>}

CodecQualities == {10, 90}

\* a process that tunes the quality of the codec to the estimate it made
ProcessRetuning ==
    /\ codec.exists
    /\ \E r \in {process(codec, image)} :
           /\ codec' = [codec EXCEPT !.m_lastBitEstimate = r.m_lastBitEstimate,
                                     !.m_quality = IF r.m_lastBitEstimate > 0
                                                   THEN Max(1, codec.m_quality - 1)
                                                   ELSE codec.m_quality]
           /\ output' = r.output
           /\ planes' = r.planes
    /\ last' = "process"
    /\ UNCHANGED <<image, debug, wav, analysis, g_session, g_artifact_gain, ret>>

Process ==
    /\ codec.exists
    /\ \E r \in {process(codec, image)} :
           /\ codec' = [codec EXCEPT !.m_lastBitEstimate = r.m_lastBitEstimate]
           /\ output' = r.output
           /\ planes' = r.planes
    /\ last' = "process"
    /\ UNCHANGED <<image, debug, wav, analysis, g_session, g_artifact_gain, ret>>

\* the inspectBlock calls made: the first block of the luma plane, and the
\* last block of the Cr plane
InspectCalls == {<<0, 0, 0, FALSE>>, <<1, MaxBlock, MaxBlock, TRUE>>}

InspectBlock ==
    /\ codec.exists
    /\ \E c \in 0 .. 2, blockX \in 0 .. MaxBlock, blockY \in 0 .. MaxBlock,
          isChroma \in BOOLEAN :
         /\ <<c, blockX, blockY, isChroma>> \in InspectCalls
         /\ \E storage \in IF TablesWritten(codec) THEN {ConstTable(0)}
                                                ELSE IndeterminateTables :
            debug' = [channel |-> c, blockX |-> blockX, blockY |-> blockY,
                      isChroma |-> isChroma,
                      data |-> inspectBlock(codec, Channel(bgrToYCrCb(image), c),
                                            blockX, blockY, isChroma, storage)]
    /\ last' = "inspectBlock"
    /\ UNCHANGED <<codec, image, output, planes, wav, analysis, g_session, g_artifact_gain, ret>>

InitCodec ==
    /\ codec = NoCodec
    /\ \E t \in TestImages : image = TestImage(t[1], t[2], t[3])
    /\ output = NoImage
    /\ planes = <<>>
    /\ debug = <<>>
    /\ g_session = <<>>
    /\ g_artifact_gain = <<>>
    /\ ret = <<>>
    /\ wav = <<>>
    /\ analysis = <<>>
    /\ last = "init"

Next ==
    \/ Construct(CodecQualities)
    \/ Process
    \/ InspectBlock

Spec == InitCodec /\ [][Next]_vars

----------------------------------------------------------------------------
(* The wavelet helpers and the block DCT as pure functions: the initial    *)
(* state holds the arguments of one call, the actions apply the helper.    *)

\* sample buffers: the ramp of WaveletTest.ImageRoundTrip and a scrambled one
TestBuffer(n, pat) ==
    [k \in 0 .. n - 1 |->
        IF pat = 1 THEN Fx(k % 256) ELSE Fx((k * k * 37 + 11 * k + 5) % 256) - Fx(128)]

\* blocks: constant (0), the two buffers (1, 2), one sample of 255 in a
\* block of zeros (3), a checkerboard of 0 and 255 (4)
TestGrid(pat) ==
    [i \in Idx8 |-> [j \in Idx8 |->
        IF pat = 0 THEN Fx(100)
        ELSE IF pat = 3 THEN (IF i = 3 /\ j = 5 THEN Fx(255) ELSE 0)
        ELSE IF pat = 4 THEN (IF (i + j) % 2 = 0 THEN 0 ELSE Fx(255))
        ELSE TestBuffer(64, pat)[i * 8 + j]]]

\* a block of one value, and the values tried: the 10 of
\* WaveletTest.ConstantBlock, the ends of the sample range and of the
\* level-shifted range
ConstantGrid(A) == [i \in Idx8 |-> [j \in Idx8 |-> Fx(A)]]
ConstantValues == {0, 10, 255, -128, 127}

\* the 8x8 blocks handed to dwt8x8 and to dct8x8
TestGrids ==
    {TestGrid(pat) : pat \in 0 .. 4} \cup {ConstantGrid(A) : A \in ConstantValues}

\* createUniformChannel of test_imagecodec.cpp: a single-channel plane of
\* one value; the values tried are the 200 of
\* InspectBlockDCDominatesForUniform, the level shift and the ends of the
\* sample range
\* createGradientChannel of test_imagecodec.cpp
createGradientChannel(width, height) ==
    WithData(width, height, 1, [k \in 0 .. width * height - 1 |-> Fx((k % 200) + 28)])

\* the block coordinates handed to inspectBlock: inside the plane, on its
\* edge, past it, and far past it, where the coordinate times 8 does not
\* fit an int
BlockCoords == {0, 1, 2, 2 ^ (IntBits - 4), 2 ^ (IntBits - 3)}

createUniformChannel(width, height, value) ==
    WithData(width, height, 1, [k \in 0 .. width * height - 1 |-> Fx(value)])
PlaneValues == {0, 10, 128, 200, 255}

WavCall(op, x, y, width, height, levels, baseStep, src) ==
    [op |-> op, phase |-> 0, x |-> x, y |-> y, width |-> width,
     height |-> height, levels |-> levels, baseStep |-> baseStep,
     src |-> src, coeffs |-> src, buf |-> src, result |-> 0]

LevelArgs == (-1 .. MaxLevelArg) \cup {128, 1024}
BaseSteps == {Fx(50), DwtBaseStep(100), DwtBaseStep(90), DwtBaseStep(1)}

InitWavelet ==
    /\ codec = NoCodec
    /\ image = NoImage
    /\ output = NoImage
    /\ planes = <<>>
    /\ debug = <<>>
    /\ g_session = <<>>
    /\ g_artifact_gain = <<>>
    /\ ret = <<>>
    /\ analysis = <<>>
    /\ last = "init"
    /\ \/ \E w \in LevelArgs, h \in LevelArgs :
            wav = WavCall("calcDwtLevels", 0, 0, w, h, 0, 0, <<>>)
       \/ \E w \in 1 .. MaxDim, h \in 1 .. MaxDim, levels \in 0 .. 6,
             baseStep \in BaseSteps :
            \E x \in 0 .. w - 1, y \in 0 .. h - 1 :
                wav = WavCall("dwtQuantStep", x, y, w, h, levels, baseStep, <<>>)
       \/ \E w \in 1 .. MaxDim, h \in 1 .. MaxDim, levels \in 0 .. 6,
             pat \in {1, 2} :
            wav = WavCall("dwtImage", 0, 0, w, h, levels, 0, TestBuffer(w * h, pat))
       \/ \E src \in TestGrids :
            wav = WavCall("dwt8x8", 0, 0, 8, 8, 3, 0, src)
       \/ \E src \in TestGrids :
            wav = WavCall("dct8x8", 0, 0, 8, 8, 0, 0, src)
       \/ \E value \in PlaneValues :
            wav = WavCall("inspectBlock", 0, 0, 8, 8, 0, 0,
                          createUniformChannel(8, 8, value))
       \/ \E blockX \in BlockCoords, blockY \in BlockCoords :
            wav = WavCall("inspectBlockAt", blockX, blockY, MaxDim, MaxDim, 0, 0,
                          createGradientChannel(MaxDim, MaxDim))

Untouched == UNCHANGED <<codec, image, output, planes, debug, analysis, g_session, g_artifact_gain, ret>>

CallCalcDwtLevels ==
    /\ wav.op = "calcDwtLevels" /\ wav.phase = 0
    /\ wav' = [wav EXCEPT !.phase = 1,
                          !.result = calcDwtLevels(wav.width, wav.height)]
    /\ last' = "calcDwtLevels"
    /\ Untouched

CallDwtQuantStep ==
    /\ wav.op = "dwtQuantStep" /\ wav.phase = 0
    /\ wav' = [wav EXCEPT !.phase = 1,
                          !.result = dwtQuantStep(wav.x, wav.y, wav.width, wav.height,
                                                  wav.levels, wav.baseStep)]
    /\ last' = "dwtQuantStep"
    /\ Untouched

CallDwtImage ==
    /\ wav.op = "dwtImage" /\ wav.phase = 0
    /\ \E out \in {dwtImage(wav.buf, wav.width, wav.height, wav.levels)} :
           wav' = [wav EXCEPT !.phase = 1, !.coeffs = out, !.buf = out]
    /\ last' = "dwtImage"
    /\ Untouched

CallIdwtImage ==
    /\ wav.op = "dwtImage" /\ wav.phase = 1
    /\ wav' = [wav EXCEPT !.phase = 2,
                          !.buf = idwtImage(wav.buf, wav.width, wav.height, wav.levels)]
    /\ last' = "idwtImage"
    /\ Untouched

CallDwt8x8 ==
    /\ wav.op = "dwt8x8" /\ wav.phase = 0
    /\ \E out \in {dwt8x8(wav.buf)} :
           wav' = [wav EXCEPT !.phase = 1, !.coeffs = out, !.buf = out]
    /\ last' = "dwt8x8"
    /\ Untouched

CallIdwt8x8 ==
    /\ wav.op = "dwt8x8" /\ wav.phase = 1
    /\ wav' = [wav EXCEPT !.phase = 2, !.buf = idwt8x8(wav.buf)]
    /\ last' = "idwt8x8"
    /\ Untouched

\* dct8x8(src, freq) and then idct8x8(freq, recovered), as in
\* TransformTest.RoundTrip
CallDct8x8 ==
    /\ wav.op = "dct8x8" /\ wav.phase = 0
    /\ \E out \in {dct8x8(wav.buf)} :
           wav' = [wav EXCEPT !.phase = 1, !.coeffs = out, !.buf = out]
    /\ last' = "dct8x8"
    /\ Untouched

CallIdct8x8 ==
    /\ wav.op = "dct8x8" /\ wav.phase = 1
    /\ wav' = [wav EXCEPT !.phase = 2, !.buf = idct8x8(wav.buf)]
    /\ last' = "idct8x8"
    /\ Untouched

\* ImageCodec codec(50.0, enableQuantization) and then
\* codec.inspectBlock(channel, 0, 0, false), as in
\* InspectBlockDCDominatesForUniform (which constructs with quantization off)
CallInspectBlock ==
    /\ wav.op = "inspectBlock" /\ wav.phase = 0
    /\ \E enableQuantization \in BOOLEAN :
         \E c \in {ImageCodecCtor(50, enableQuantization, "CS_444", "DCT")} :
           \E storage \in IF TablesWritten(c) THEN {ConstTable(0)}
                                              ELSE IndeterminateTables :
              /\ codec' = c
              /\ debug' = [channel |-> 0, blockX |-> wav.x, blockY |-> wav.y,
                           isChroma |-> FALSE,
                           data |-> inspectBlock(c, wav.src, wav.x, wav.y,
                                                 FALSE, storage)]
    /\ wav' = [wav EXCEPT !.phase = 1]
    /\ last' = "inspectBlock"
    /\ UNCHANGED <<image, output, planes, analysis, g_session, g_artifact_gain, ret>>

\* the call reads no memory that the program never wrote
ReadsWrittenOnly(c, channel, blockX, blockY) ==
    /\ TablesWritten(c)
    /\ \A p \in inspectBlockReads(c, channel, blockX, blockY) : InPlane(channel, p)

\* inspectBlock at any block of a gradient plane.  Where blockX * 8 or
\* blockY * 8 overflows, the behaviour is undefined: the call goes on with
\* the wrapped product, or the program stops at the overflow or at the read
\* it leads to.
CallInspectBlockAt ==
    /\ wav.op = "inspectBlockAt" /\ wav.phase = 0
    /\ \E enableQuantization \in BOOLEAN :
         \E c \in {ImageCodecCtor(50, enableQuantization, "CS_444", "DCT")} :
           /\ codec' = c
           /\ \/ /\ \E storage \in IF ReadsWrittenOnly(c, wav.src, wav.x, wav.y)
                                      THEN {ConstTable(0)}
                                      ELSE IndeterminateTables :
                        debug' = [channel |-> 0, blockX |-> wav.x, blockY |-> wav.y,
                                  isChroma |-> FALSE,
                                  reads |-> inspectBlockReads(c, wav.src, wav.x, wav.y),
                                  data |-> inspectBlock(c, wav.src, wav.x, wav.y,
                                                        FALSE, storage)]
                   /\ last' = "inspectBlock"
              \/ /\ (BlockStartOverflows(wav.x) \/ BlockStartOverflows(wav.y))
                 /\ debug' = debug
                 /\ last' = "fault"
    /\ wav' = [wav EXCEPT !.phase = 1]
    /\ UNCHANGED <<image, output, planes, analysis, g_session, g_artifact_gain, ret>>

NextWavelet ==
    \/ CallCalcDwtLevels
    \/ CallDwtQuantStep
    \/ CallDwtImage
    \/ CallIdwtImage
    \/ CallDwt8x8
    \/ CallIdwt8x8
    \/ CallDct8x8
    \/ CallIdct8x8
    \/ CallInspectBlock
    \/ CallInspectBlockAt

SpecWavelet == InitWavelet /\ [][NextWavelet]_vars

----------------------------------------------------------------------------
(* CodecAnalysis and the Image constructors as pure functions: the initial *)
(* state holds the arguments of one call, the actions apply the function.  *)

\* createFlatImage of test_codecanalysis.cpp
createFlatImage(width, height, r, g, b) ==
    WithData(width, height, 3,
        [k \in 0 .. 3 * width * height - 1 |->
            Fx(IF k % 3 = 0 THEN b ELSE IF k % 3 = 1 THEN g ELSE r)])

\* a single-channel plane of scrambled samples
ScrambledPlane(width, height) ==
    WithData(width, height, 1,
        [k \in 0 .. width * height - 1 |-> Fx((k * k * 37 + 11 * k + 5) % 256)])

\* an n x n plane of value 200, with its first sample raised by `steps`
\* times the smallest step of a sample of the model
SparsePlane(n, steps) ==
    WithData(n, n, 1, [k \in 0 .. n * n - 1 |-> IF k = 0 THEN Fx(200) + steps ELSE Fx(200)])

\* the images handed to computePSNR, computeSSIM and computeArtifactMap:
\* three-channel images and planes, of shapes that differ in the width
\* only, the height only, the channel count only, and in both dimensions
\* with the same number of samples
AnalysisImages ==
    {TestImage(9, 9, 1), TestImage(9, 9, 2),
     ScrambledPlane(9, 9), createUniformChannel(9, 9, 100),
     ScrambledPlane(5, 9), ScrambledPlane(9, 5),
     createFlatImage(16, 16, 100, 100, 100), createFlatImage(16, 16, 110, 110, 110),
     SparsePlane(1, 0), SparsePlane(1, 1)}

\* larger planes that differ in one sample by the smallest step: their
\* mean squared error lies on either side of 1e-10
SparseSizes == {64, 100}

\* the pairs handed to computeMetrics, original and reconstructed
MetricsImages ==
    {TestImage(9, 9, 1), TestImage(9, 9, 2), TestImage(1, 1, 2),
     TestImage(5, 9, 1), createFlatImage(16, 16, 100, 50, 25)}

Gains == {0, 500000, DefaultGain}

\* the widths, heights and channel counts handed to the constructor
CtorArgs == -1 .. MaxCtorArg

AnalysisCall(op, a, b, gain, width, height, channels) ==
    [op |-> op, phase |-> 0, a |-> a, b |-> b, gain |-> gain,
     width |-> width, height |-> height, channels |-> channels, result |-> <<>>]

InitAnalysis ==
    /\ codec = NoCodec
    /\ image = NoImage
    /\ output = NoImage
    /\ planes = <<>>
    /\ debug = <<>>
    /\ g_session = <<>>
    /\ g_artifact_gain = <<>>
    /\ ret = <<>>
    /\ wav = <<>>
    /\ last = "init"
    /\ \/ \E op \in {"computePSNR", "computeSSIM"}, a \in AnalysisImages,
             b \in AnalysisImages :
            analysis = AnalysisCall(op, a, b, 0, 0, 0, 0)
       \/ \E n \in SparseSizes :
            analysis = AnalysisCall("computePSNR", SparsePlane(n, 0), SparsePlane(n, 1),
                                    0, 0, 0, 0)
       \/ \E a \in AnalysisImages, b \in AnalysisImages, gain \in Gains :
            analysis = AnalysisCall("computeArtifactMap", a, b, gain, 0, 0, 0)
       \/ \E a \in MetricsImages, b \in MetricsImages :
            analysis = AnalysisCall("computeMetrics", a, b, DefaultGain, 0, 0, 0)
       \/ \E width \in CtorArgs, height \in CtorArgs, channels \in CtorArgs :
            analysis = AnalysisCall("Image", NoImage, NoImage, 0, width, height, channels)
       \/ analysis = AnalysisCall("Image()", NoImage, NoImage, 0, 0, 0, 0)

NoCodecState == UNCHANGED <<codec, image, output, planes, debug, wav, g_session, g_artifact_gain, ret>>

CallComputePSNR ==
    /\ analysis.op = "computePSNR" /\ analysis.phase = 0
    /\ analysis' = [analysis EXCEPT !.phase = 1,
                                    !.result = computePSNR(analysis.a, analysis.b)]
    /\ last' = "computePSNR"
    /\ NoCodecState

CallComputeSSIM ==
    /\ analysis.op = "computeSSIM" /\ analysis.phase = 0
    /\ analysis' = [analysis EXCEPT !.phase = 1,
                                    !.result = computeSSIM(analysis.a, analysis.b)]
    /\ last' = "computeSSIM"
    /\ NoCodecState

CallComputeArtifactMap ==
    /\ analysis.op = "computeArtifactMap" /\ analysis.phase = 0
    /\ analysis' = [analysis EXCEPT !.phase = 1,
                        !.result = computeArtifactMap(analysis.a, analysis.b, analysis.gain)]
    /\ last' = "computeArtifactMap"
    /\ NoCodecState

CallComputeMetrics ==
    /\ analysis.op = "computeMetrics" /\ analysis.phase = 0
    /\ \E pastTheEnd \in {"fault", "values"} :
           analysis' = [analysis EXCEPT !.phase = 1,
                           !.result = computeMetrics(analysis.a, analysis.b, pastTheEnd)]
    /\ last' = "computeMetrics"
    /\ NoCodecState

\* Image img(width, height, channels);
ConstructImage ==
    /\ analysis.op = "Image" /\ analysis.phase = 0
    /\ analysis' = [analysis EXCEPT !.phase = 1,
                        !.result = ImageCtor(analysis.width, analysis.height,
                                             analysis.channels)]
    /\ last' = "Image"
    /\ NoCodecState

\* Image img;
DefaultConstructImage ==
    /\ analysis.op = "Image()" /\ analysis.phase = 0
    /\ analysis' = [analysis EXCEPT !.phase = 1,
                                    !.result = [thrown |-> "none", image |-> NoImage]]
    /\ last' = "Image()"
    /\ NoCodecState

NextAnalysis ==
    \/ CallComputePSNR
    \/ CallComputeSSIM
    \/ CallComputeArtifactMap
    \/ CallComputeMetrics
    \/ ConstructImage
    \/ DefaultConstructImage

SpecAnalysis == InitAnalysis /\ [][NextAnalysis]_vars

----------------------------------------------------------------------------
(* The web bridge: codec_web.cpp.  One CodecSession lives between the     *)
(* calls that JavaScript makes; a call returns a pointer or a double.      *)

\* the largest side of the canvases handed to init_session
MaxSide == 3

\* static CodecSession g_session: the default member initializers
NoSession ==
    [originalImage |-> NoImage, originalYCrCb |-> NoImage,
     processedYCrCb |-> NoImage,
     inspectionChannel |-> NoImage, inspectionDS |-> NoImage,
     metrics |-> [thrown |-> "none", psnrY |-> 0, psnrCr |-> 0, psnrCb |-> 0,
                  ssimY |-> <<0, 0>>, ssimCr |-> <<0, 0>>, ssimCb |-> <<0, 0>>,
                  artifactMap |-> NoImage],
     initialized |-> FALSE, useTint |-> TRUE]

map_cs_mode(mode) ==
    IF mode = 422 THEN "CS_422" ELSE IF mode = 420 THEN "CS_420" ELSE "CS_444"

map_transform_mode(mode) == IF mode = 1 THEN "DWT" ELSE "DCT"

\* init_session; rgba_input is [null |-> TRUE] or the bytes of the canvas
init_session(s, rgba_input, width, height) ==
    IF rgba_input.null \/ width <= 0 \/ height <= 0 THEN s
    ELSE LET originalImage ==
                 WithData(width, height, 3,
                     [k \in 0 .. 3 * width * height - 1 |->
                         Fx(rgba_input.bytes[(k \div 3) * 4 + 2 - (k % 3)])])
         IN  [s EXCEPT !.originalImage = originalImage,
                       !.originalYCrCb = bgrToYCrCb(originalImage),
                       !.initialized = TRUE]

\* process_image
process_image(s, quality, cs_mode, transform_mode) ==
    IF ~s.initialized THEN s
    ELSE LET c == ImageCodecCtor(quality, TRUE, map_cs_mode(cs_mode),
                                 map_transform_mode(transform_mode))
         IN  CHOOSE session \in
                 {[s EXCEPT !.metrics = computeMetrics(s.originalImage, processedBgr,
                                                       "values"),
                            !.processedYCrCb = bgrToYCrCb(processedBgr)] :
                      processedBgr \in {process(c, s.originalImage).output}} : TRUE

\* data[k], or what the memory past the end of the buffer holds
ReadAt(data, k, garbage) == IF k \in DOMAIN data THEN data[k] ELSE garbage

RECURSIVE ISqrt(_, _, _)
\* the integer square root of n, between lo and hi
ISqrt(n, lo, hi) ==
    IF lo >= hi THEN lo
    ELSE LET mid == (lo + hi + 1) \div 2
         IN  IF mid * mid <= n THEN ISqrt(n, mid, hi) ELSE ISqrt(n, lo, mid - 1)

\* std::sqrt(gx * gx + gy * gy), to 1/32 of a sample step
Hypot(gx, gy) ==
    32 * ISqrt((Abs(gx) \div 32) * (Abs(gx) \div 32)
                 + (Abs(gy) \div 32) * (Abs(gy) \div 32), 0, 16 * ONE)

\* CodecAnalysis::computeEdgeDistortionMap.  The loops run over the inner
\* pixels of the original and read both images through at(), which checks
\* nothing: a smaller reconstructed image is read past its end.
computeEdgeDistortionMap(original, reconstructed, garbage) ==
    LET w == original.m_width
        h == original.m_height
        o(x, y) == original.m_data[(y * w + x) * original.m_channels]
        ri(x, y) == (y * reconstructed.m_width + x) * reconstructed.m_channels
        r(x, y) == ReadAt(reconstructed.m_data, ri(x, y), garbage)
        inner == {p \in (1 .. w - 2) \X (1 .. h - 2) : TRUE}
    IN  [image |-> WithData(w, h, 1,
            [k \in 0 .. w * h - 1 |->
                LET x == k % w
                    y == k \div w
                IN  IF <<x, y>> \in inner
                    THEN Min(Fx(255),
                             4 * Abs(Hypot(o(x + 1, y) - o(x - 1, y),
                                           o(x, y + 1) - o(x, y - 1))
                                     - Hypot(r(x + 1, y) - r(x - 1, y),
                                             r(x, y + 1) - r(x, y - 1))))
                    ELSE 0]),
         pastTheEnd |-> \E p \in inner :
                           \E q \in {<<p[1] + 1, p[2]>>, <<p[1] - 1, p[2]>>,
                                     <<p[1], p[2] + 1>>, <<p[1], p[2] - 1>>} :
                               ri(q[1], q[2]) \notin DOMAIN reconstructed.m_data]

\* CodecAnalysis::computeBlockingMap
computeBlockingMap(reconstructed) ==
    LET w == reconstructed.m_width
        h == reconstructed.m_height
        r(x, y) == reconstructed.m_data[(y * w + x) * reconstructed.m_channels]
    IN  WithData(w, h, 1,
            [k \in 0 .. w * h - 1 |->
                LET x == k % w
                    y == k \div w
                IN  Min(Fx(255),
                        8 * ((IF x % 8 = 0 /\ x > 0
                              THEN Abs(r(x, y) - r(x - 1, y)) ELSE 0)
                             + (IF y % 8 = 0 /\ y > 0
                                THEN Abs(r(x, y) - r(x, y - 1)) ELSE 0)))])

\* the switch of get_view_ptr: viewImage, or the exception that leaves the
\* call, and whether a read went past the end of the processed plane.
\* ycrcbToBgr constructs Image(width, height, 3) of its argument, which
\* throws for the empty image.
viewImage(s, gain, mode, garbage) ==
    LET width == s.originalImage.m_width
        height == s.originalImage.m_height
        numPixels == width * height
        processed == s.processedYCrCb
        offset == IF mode = 2 THEN 0 ELSE IF mode = 3 THEN 1 ELSE 2
    IN  IF mode \in {2, 3, 4}
        THEN [thrown |-> "none",
              image |-> WithData(width, height, 3,
                  [k \in 0 .. 3 * numPixels - 1 |->
                      LET channelData ==
                              ReadAt(processed.m_data, (k \div 3) * 3 + offset, garbage)
                      IN  IF mode = 2 \/ ~s.useTint THEN channelData
                          ELSE IF mode = 3
                          THEN (IF k % 3 = 2 THEN channelData ELSE Fx(128))
                          ELSE (IF k % 3 = 0 THEN channelData ELSE Fx(128))]),
              pastTheEnd |-> 3 * numPixels > processed.m_width * processed.m_height
                                                 * processed.m_channels]
        ELSE IF mode \notin {0, 1, 5, 6}
        THEN [thrown |-> "none", image |-> NoImage, pastTheEnd |-> FALSE]
        ELSE IF ImageCtor(processed.m_width, processed.m_height, 3).thrown # "none"
        THEN [thrown |-> ImageCtor(processed.m_width, processed.m_height, 3).thrown]
        ELSE IF mode = 0
        THEN [thrown |-> "none", image |-> ycrcbToBgr(processed),
              pastTheEnd |-> FALSE]
        ELSE IF mode = 1
        THEN LET map == computeArtifactMap(s.originalImage, ycrcbToBgr(processed),
                                           gain)
             IN  IF map.thrown # "none" THEN [thrown |-> map.thrown]
                 ELSE [thrown |-> "none", image |-> map.image, pastTheEnd |-> FALSE]
        ELSE IF mode = 5
        THEN LET map == computeEdgeDistortionMap(s.originalImage,
                                                 ycrcbToBgr(processed), garbage)
             IN  [thrown |-> "none", image |-> map.image,
                  pastTheEnd |-> map.pastTheEnd]
        ELSE [thrown |-> "none", image |-> computeBlockingMap(ycrcbToBgr(processed)),
              pastTheEnd |-> FALSE]

\* static_cast<uint8_t>(std::max(0.0, std::min(v, 255.0)))
ToByte(v) == Clamp255(v) \div ONE

\* get_view_ptr past its test of g_session.initialized: the RGBA bytes of
\* the buffer returned, or the exception or the fault that ends the call;
\* processed is the shape of the processed plane the call read.  A read past
\* the end of a buffer is undefined: it faults, or it yields what the memory
\* holds.
viewBuffer(s, gain, mode, outcome, garbage) ==
    LET numPixels == s.originalImage.m_width * s.originalImage.m_height
        read == [m_width |-> s.processedYCrCb.m_width,
                 m_height |-> s.processedYCrCb.m_height]
    IN  \* the view is computed once
        CHOOSE result \in
          {IF view.thrown # "none"
               THEN [value |-> "throws", thrown |-> view.thrown,
                     read |-> mode \in 0 .. 6, processed |-> read]
               ELSE LET viewCh == view.image.m_channels
                        past == \/ view.pastTheEnd
                                \/ numPixels * (IF viewCh = 1 THEN 1 ELSE 3)
                                      > view.image.m_width * view.image.m_height
                                            * viewCh
                    IN  IF past /\ outcome = "fault"
                        THEN [value |-> "fault", read |-> mode \in 0 .. 6,
                              processed |-> read]
                        ELSE [value |-> "buffer", read |-> mode \in 0 .. 6,
                              processed |-> read, pastTheEnd |-> past,
                              pixels |-> [k \in 0 .. 4 * numPixels - 1 |->
                                  IF k % 4 = 3 THEN 255
                                  ELSE IF viewCh = 1
                                  THEN ToByte(ReadAt(view.image.m_data, k \div 4,
                                                     garbage))
                                  ELSE ToByte(ReadAt(view.image.m_data,
                                                     (k \div 4) * 3 + 2 - (k % 4),
                                                     garbage))]]
             : view \in {viewImage(s, gain, mode, garbage)}} : TRUE

\* get_view_ptr without its test of g_session.initialized
get_view_ptrUnguarded(s, gain, mode, outcome, garbage) ==
    viewBuffer(s, gain, mode, outcome, garbage)

\* get_view_ptr
get_view_ptr(s, gain, mode, outcome, garbage) ==
    IF ~s.initialized THEN [value |-> "null", read |-> FALSE]
    ELSE viewBuffer(s, gain, mode, outcome, garbage)

\* downsample_channel of the bridge: the mean of the samples each target
\* sample covers
downsample_channel(src, cs) ==
    IF cs = "CS_444" THEN src
    ELSE
    LET w == src.m_width
        h == src.m_height
        scaleX == 2
        scaleY == IF cs = "CS_420" THEN 2 ELSE 1
        newW == (w + scaleX - 1) \div scaleX
        newH == (h + scaleY - 1) \div scaleY
    IN  WithData(newW, newH, 1,
            [k \in 0 .. newW * newH - 1 |->
                LET startX == (k % newW) * scaleX
                    startY == (k \div newW) * scaleY
                    covered(dx, dy) == /\ dx < scaleX /\ startX + dx < w
                                       /\ dy < scaleY /\ startY + dy < h
                    value(dx, dy) == IF covered(dx, dy)
                                     THEN src.m_data[(startY + dy) * w + startX + dx]
                                     ELSE 0
                    one(dx, dy) == IF covered(dx, dy) THEN 1 ELSE 0
                IN  RoundDiv(value(0, 0) + value(1, 0) + value(0, 1) + value(1, 1),
                             one(0, 0) + one(1, 0) + one(0, 1) + one(1, 1))])

\* inspect_block_data: the session with its two reusable buffers written,
\* and the snapshot the returned pointer leads to
inspect_block_data(s, blockX, blockY, channelIndex, quality, cs_mode, transform_mode) ==
    IF ~s.initialized THEN [session |-> s, value |-> "null"]
    ELSE
    LET offset == IF channelIndex = 0 THEN 0 ELSE IF channelIndex = 1 THEN 1 ELSE 2
        channel == Channel(s.originalYCrCb, offset)
        isChroma == channelIndex # 0
        cs == map_cs_mode(cs_mode)
        subsampled == isChroma /\ cs # "CS_444"
        ds == downsample_channel(channel, cs)
        c == ImageCodecCtor(quality, TRUE, cs, map_transform_mode(transform_mode))
    IN  [session |-> [s EXCEPT !.inspectionChannel = channel,
                               !.inspectionDS = IF subsampled THEN ds ELSE @],
         value |-> inspectBlock(c, IF subsampled THEN ds ELSE channel,
                       IF subsampled THEN blockX \div 2 ELSE blockX,
                       IF subsampled /\ cs = "CS_420" THEN blockY \div 2 ELSE blockY,
                       isChroma, ConstTable(0))]

\* a canvas of width x height pixels of varied colours
Canvas(width, height) ==
    [null |-> FALSE,
     bytes |-> [k \in 0 .. 4 * width * height - 1 |-> (37 * k + 11 * (k \div 4)) % 256]]

\* the arguments of the init_session calls: canvases of two sizes, a null
\* buffer, and a width or a height that is not positive
SessionInputs ==
    {<<Canvas(2, 1), 2, 1>>, <<Canvas(MaxSide, MaxSide), MaxSide, MaxSide>>,
     <<[null |-> TRUE], 2, 2>>, <<Canvas(1, 1), 0, 1>>, <<Canvas(1, 1), 1, -1>>}

\* the codec parameters the page sends: <<quality, cs_mode, transform_mode>>
SessionParams == {<<50, 420, 1>>}

\* the blocks the page inspects: <<channelIndex, cs_mode, transform_mode>>
SessionBlocks == {<<1, 420, 1>>}

InitSession ==
    /\ \E in \in SessionInputs :
         /\ g_session' = init_session(g_session, in[1], in[2], in[3])
         /\ ret' = [op |-> "init_session", width |-> in[2], height |-> in[3],
                    null |-> in[1].null]
    /\ last' = "init_session"
    /\ UNCHANGED <<codec, image, output, planes, debug, wav, analysis, g_artifact_gain>>

ProcessImage ==
    /\ \E p \in SessionParams :
         g_session' = process_image(g_session, p[1], p[2], p[3])
    /\ ret' = [op |-> "process_image"]
    /\ last' = "process_image"
    /\ UNCHANGED <<codec, image, output, planes, debug, wav, analysis, g_artifact_gain>>

GetViewPtr ==
    /\ \E mode \in 0 .. 6, outcome \in {"fault", "values"}, garbage \in {0, Fx(255)} :
         ret' = [op |-> "get_view_ptr", mode |-> mode]
                    @@ get_view_ptr(g_session, g_artifact_gain, mode, outcome, garbage)
    /\ last' = "get_view_ptr"
    /\ UNCHANGED <<codec, image, output, planes, debug, wav, analysis, g_session,
                   g_artifact_gain>>

\* get_psnr_y, get_psnr_cr, get_psnr_cb, get_ssim_y, get_ssim_cr, get_ssim_cb
GetMetric ==
    /\ \E m \in {"psnrY", "psnrCr", "psnrCb", "ssimY", "ssimCr", "ssimCb"} :
         ret' = [op |-> "get_metric", metric |-> m,
                 value |-> IF g_session.initialized THEN g_session.metrics[m]
                           ELSE NoSession.metrics[m]]
    /\ last' = "get_metric"
    /\ UNCHANGED <<codec, image, output, planes, debug, wav, analysis, g_session,
                   g_artifact_gain>>

InspectBlockData ==
    /\ \E b \in SessionBlocks :
         \E r \in {inspect_block_data(g_session, 0, 0, b[1], 50, b[2], b[3])} :
            /\ g_session' = r.session
            /\ ret' = [op |-> "inspect_block_data", value |-> r.value]
    /\ last' = "inspect_block_data"
    /\ UNCHANGED <<codec, image, output, planes, debug, wav, analysis, g_artifact_gain>>

SetViewTint ==
    /\ \E enable \in {0, 1} : g_session' = [g_session EXCEPT !.useTint = enable # 0]
    /\ ret' = [op |-> "set_view_tint"]
    /\ last' = "set_view_tint"
    /\ UNCHANGED <<codec, image, output, planes, debug, wav, analysis, g_artifact_gain>>

SetArtifactGain ==
    /\ \E gain \in {0, 1000000} :
         g_artifact_gain' = IF gain > 0 THEN gain ELSE g_artifact_gain
    /\ ret' = [op |-> "set_artifact_gain"]
    /\ last' = "set_artifact_gain"
    /\ UNCHANGED <<codec, image, output, planes, debug, wav, analysis, g_session>>

InitBridge ==
    /\ codec = NoCodec
    /\ image = NoImage
    /\ output = NoImage
    /\ planes = <<>>
    /\ debug = <<>>
    /\ wav = <<>>
    /\ analysis = <<>>
    /\ last = "init"
    /\ g_session = NoSession
    /\ g_artifact_gain = DefaultGain
    /\ ret = <<>>

NextBridge ==
    \/ InitSession
    \/ ProcessImage
    \/ GetViewPtr
    \/ GetMetric
    \/ InspectBlockData
    \/ SetViewTint
    \/ SetArtifactGain

SpecBridge == InitBridge /\ [][NextBridge]_vars

----------------------------------------------------------------------------
(* Claims about the pipeline, checked under Spec *)

\* process() has returned
Processed == output # NoImage

\* C1: process returns an image of exactly the width and the height of its
\* input and of 3 channels, for every input image (sides multiples of 8 or
\* not) and every configuration of quality, quantization flag, chroma mode
\* and transform.
C1_DimensionsPreserved ==
    Processed =>
        /\ output.m_width = image.m_width
        /\ output.m_height = image.m_height
        /\ output.m_channels = 3
        /\ DOMAIN output.m_data = 0 .. 3 * image.m_width * image.m_height - 1

\* C1 witness: an image whose sides are not multiples of 8, processed by a
\* wavelet codec with 4:2:0 chroma and quantization off.
C1_Witness ==
    /\ Processed
    /\ image.m_width = 8 + MaxPartial /\ image.m_height = 8 + MaxPartial
    /\ codec.m_transformType = "DWT"
    /\ codec.m_chromaSubsampling = "CS_420"
    /\ ~codec.m_enableQuantization
    /\ output.m_width = 8 + MaxPartial /\ output.m_channels = 3

\* C2: every sample of the image process returns lies in [0, 255], for every
\* input image and every configuration.
C2_OutputRange ==
    Processed =>
        \A k \in DOMAIN output.m_data :
            0 <= output.m_data[k] /\ output.m_data[k] <= Fx(255)

\* C2 witness: the inverse colour transform met a sample above 255 and one
\* below 0 in the merged planes and returned 255 and 0 for them.
C2_Witness ==
    /\ Processed
    /\ \E k \in 0 .. image.m_width * image.m_height - 1, ch \in 1 .. 3 :
           /\ UnclampedBgr(planes.merged, k)[ch] > Fx(255)
           /\ output.m_data[3 * k + ch - 1] = Fx(255)
    /\ \E k \in 0 .. image.m_width * image.m_height - 1, ch \in 1 .. 3 :
           /\ UnclampedBgr(planes.merged, k)[ch] < 0
           /\ output.m_data[3 * k + ch - 1] = 0

\* the 8x8 block of a plane at (x, y) as a plane of its own
BlockAlone(channel, x, y) ==
    WithData(8, 8, 1, [k \in 0 .. 63 |->
        channel.m_data[(y + k \div 8) * channel.m_width + x + (k % 8)]])

\* The plane p of the last process() call keeps its blocks: every sample is
\* written; a sample of a block smaller than 8x8 equals the sample of the
\* plane handed in; a full 8x8 block equals what the codec reconstructs from
\* the 64 samples of that block alone.
PlaneKeepsBlocks(p) ==
    LET in == planes[p].in
        out == planes[p].out
        w == in.m_width
        h == in.m_height
    IN  /\ planes[p].written = 0 .. w * h - 1
        /\ DOMAIN out.m_data = 0 .. w * h - 1
        /\ \A k \in 0 .. w * h - 1 :
               ((k % w) \div 8) * 8 + 8 > w \/ ((k \div w) \div 8) * 8 + 8 > h
                   => out.m_data[k] = in.m_data[k]
        /\ \A bx \in 0 .. (w \div 8) - 1, by \in 0 .. (h \div 8) - 1 :
               \E alone \in {processPlane(codec, BlockAlone(in, 8 * bx, 8 * by),
                                          p # "Y").image} :
                   \A i \in Idx8, j \in Idx8 :
                       out.m_data[(8 * by + i) * w + 8 * bx + j]
                           = alone.m_data[8 * i + j]

Inspected == debug # <<>>

\* C4: with the wavelet transform configured, inspectBlock returns a snapshot
\* whose five grids (original, coefficients, quantTable, quantized,
\* reconstructed) are zero everywhere, for every plane, block coordinate and
\* value of isChroma; and whenever a wavelet codec exists, every call returns
\* that snapshot, whatever the table storage holds (the call never fails).
C4_WaveletSnapshotZero ==
    /\ (Inspected /\ codec.m_transformType = "DWT") =>
           \A i \in Idx8, j \in Idx8 :
               /\ debug.data.original[i][j] = 0
               /\ debug.data.coefficients[i][j] = 0
               /\ debug.data.quantTable[i][j] = 0
               /\ debug.data.quantized[i][j] = 0
               /\ debug.data.reconstructed[i][j] = 0
    /\ (codec.exists /\ codec.m_transformType = "DWT") =>
           \A call \in InspectCalls, storage \in IndeterminateTables :
               inspectBlock(codec, Channel(bgrToYCrCb(image), call[1]),
                            call[2], call[3], call[4], storage)
                   = EmptyBlockDebugData

\* C4 witness: a wavelet codec built with quantization off has inspected the
\* last block of the Cr plane as a chroma block.
C4_Witness ==
    /\ Inspected
    /\ codec.m_transformType = "DWT" /\ ~codec.m_enableQuantization
    /\ debug.channel = 1 /\ debug.isChroma
    /\ debug.blockX = MaxBlock /\ debug.blockY = MaxBlock
    /\ debug.data.quantTable = ConstTable(0)

\* C7 as stated: every codec instance derives its luma and chroma tables
\* from the quality at construction, whatever the quantization flag, and the
\* quantTable grid of every inspectBlock snapshot taken with the DCT has
\* every entry >= 1.0 and equals the table for that quality.
C7_TablesAlwaysDerived ==
    /\ codec.exists =>
           /\ TablesWritten(codec)
           /\ codec.m_lumaQuantTable = generateQuantizationTables(codec.m_quality).luma
           /\ codec.m_chromaQuantTable = generateQuantizationTables(codec.m_quality).chroma
    /\ (Inspected /\ codec.m_transformType = "DCT") =>
           /\ \A i \in Idx8, j \in Idx8 : debug.data.quantTable[i][j] >= Fx(1)
           /\ debug.data.quantTable =
                  IF debug.isChroma
                  THEN generateQuantizationTables(codec.m_quality).chroma
                  ELSE generateQuantizationTables(codec.m_quality).luma

\* the in-bounds source samples of the neighbourhood of the downsampled
\* sample (x, y): 2x1 for 4:2:2, 2x2 for 4:2:0
Neighbourhood(W, H, cs, x, y) ==
    {p \in (0 .. W - 1) \X (0 .. H - 1) :
        /\ p[1] \div 2 = x
        /\ (IF cs = "CS_420" THEN p[2] \div 2 ELSE p[2]) = y}

RECURSIVE SumOver(_, _)
\* the sum of the samples of plane at the positions S
SumOver(plane, S) ==
    IF S = {} THEN 0
    ELSE LET p == CHOOSE q \in S : TRUE
         IN  at(plane, p[1], p[2], 0) + SumOver(plane, S \ {p})

\* the chroma plane c (1: Cr, 2: Cb) of the caller's image before resampling
ChromaOrig(c) == Channel(bgrToYCrCb(image), c)

\* C22: for a W x H chroma plane, downsampleChannel returns the plane itself
\* for 4:4:4, a ceil(W/2) x H plane for 4:2:2 and a ceil(W/2) x ceil(H/2)
\* plane for 4:2:0, each sample the mean of the 1 to 4 in-bounds source
\* samples of its 2x1 / 2x2 neighbourhood, which is never empty;
\* upsampleChannel returns a plane of the target size W x H whose sample
\* (x, y) is the source sample (x div 2, y) for 4:2:2 and (x div 2, y div 2)
\* for 4:2:0, a position inside the downsampled plane.
C22_ChromaGeometry ==
    Processed =>
        \A c \in {1, 2} :
            LET cs == codec.m_chromaSubsampling
                orig == ChromaOrig(c)
                W == orig.m_width
                H == orig.m_height
                down == IF c = 1 THEN planes.Cr.in ELSE planes.Cb.in
                recon == IF c = 1 THEN planes.Cr.out ELSE planes.Cb.out
                halfH == IF cs = "CS_420" THEN 2 ELSE 1
            IN  /\ cs = "CS_444" => down = orig
                /\ cs # "CS_444" =>
                       /\ down.m_width = (W + 1) \div 2
                       /\ down.m_height = (H + halfH - 1) \div halfH
                       /\ down.m_channels = 1
                       /\ DOMAIN down.m_data = 0 .. down.m_width * down.m_height - 1
                       /\ \A x \in 0 .. down.m_width - 1, y \in 0 .. down.m_height - 1 :
                              LET N == Neighbourhood(W, H, cs, x, y)
                              IN  /\ Cardinality(N) \in 1 .. 2 * halfH
                                  /\ at(down, x, y, 0)
                                         = RoundDiv(SumOver(orig, N), Cardinality(N))
                /\ recon.m_width = down.m_width /\ recon.m_height = down.m_height
                /\ planes.merged.m_width = W /\ planes.merged.m_height = H
                /\ DOMAIN planes.merged.m_data = 0 .. 3 * W * H - 1
                /\ \A x \in 0 .. W - 1, y \in 0 .. H - 1 :
                       LET sx == IF cs = "CS_444" THEN x ELSE x \div 2
                           sy == IF cs = "CS_420" THEN y \div 2 ELSE y
                       IN  /\ sx < recon.m_width /\ sy < recon.m_height
                           /\ at(planes.merged, x, y, c) = at(recon, sx, sy, 0)

\* C22 witness: process has run with 4:2:0 on the gradient image of odd
\* sides: the Cr plane went down to half the width rounded up, its sample
\* (0, 0) the mean of four samples that are not all equal, a sample of its
\* first row the mean of two, and its last sample the one source sample in
\* the corner.
C22_Witness ==
    /\ Processed
    /\ codec.m_chromaSubsampling = "CS_420" /\ codec.m_transformType = "DCT"
    /\ image = TestImage(8 + MaxPartial, 8 + MaxPartial, 1)
    /\ planes.Cr.in.m_width = (8 + MaxPartial + 1) \div 2
    /\ Cardinality(Neighbourhood(image.m_width, image.m_height, "CS_420", 0, 0)) = 4
    /\ at(ChromaOrig(1), 0, 0, 0) # at(ChromaOrig(1), 1, 1, 0)
    /\ \E x \in 0 .. planes.Cr.in.m_width - 1 :
           Cardinality(Neighbourhood(image.m_width, image.m_height, "CS_420", x, 0)) = 2
    /\ \E x \in 0 .. planes.Cr.in.m_width - 1, y \in 0 .. planes.Cr.in.m_height - 1 :
           /\ Neighbourhood(image.m_width, image.m_height, "CS_420", x, y)
                  = {<<image.m_width - 1, image.m_height - 1>>}
           /\ at(planes.Cr.in, x, y, 0)
                  = at(ChromaOrig(1), image.m_width - 1, image.m_height - 1, 0)

\* the codec with another chroma mode, everything else the same
WithChromaMode(c, cs) == [c EXCEPT !.m_chromaSubsampling = cs]

\* C23: chroma subsampling touches only Cr and Cb: for a fixed input image,
\* quality, quantization flag and transform, the reconstructed Y plane that
\* process() computes is the same under 4:4:4, 4:2:2 and 4:2:0, and Y is
\* always transformed at the full W x H resolution: the plane handed to the
\* transform is the Y plane of the converted image and the plane that comes
\* back has its size, every sample written.
C23_LumaIndependent ==
    Processed =>
        /\ planes.Y.in = Channel(bgrToYCrCb(image), 0)
        /\ planes.Y.in.m_width = image.m_width
        /\ planes.Y.in.m_height = image.m_height
        /\ planes.Y.out.m_width = image.m_width
        /\ planes.Y.out.m_height = image.m_height
        /\ planes.Y.written = 0 .. image.m_width * image.m_height - 1
        /\ \A cs \in ChromaModes \ {codec.m_chromaSubsampling} :
               process(WithChromaMode(codec, cs), image).planes.Y = planes.Y

\* C23 witness: process has run with 4:2:0 and the DCT, quantization on, on
\* an image of odd sides: the chroma planes went down to a smaller size and
\* came back changed, the luma plane was handed over at the size of the
\* image and its first block came back changed by the quantization.
C23_Witness ==
    /\ Processed
    /\ codec.m_chromaSubsampling = "CS_420" /\ codec.m_transformType = "DCT"
    /\ codec.m_enableQuantization
    /\ image = TestImage(8 + MaxPartial, 8 + MaxPartial, 2)
    /\ planes.Cr.in.m_width < image.m_width
    /\ planes.Y.in.m_width = image.m_width
    /\ planes.Y.out.m_data[0] # planes.Y.in.m_data[0]
    /\ process(WithChromaMode(codec, "CS_444"), image).planes.Cr.out
           # planes.Cr.out

\* n is std::round(c / t) for t > 0: the integer nearest to the quotient,
\* the one farther from zero when the quotient lies halfway
IsRoundedQuotient(n, c, t) ==
    /\ 2 * Abs(c - n * t) <= t
    /\ 2 * Abs(c - n * t) = t => Abs(n * t) > Abs(c)

\* C24: in an inspectBlock snapshot taken with the DCT and quantization
\* enabled, every quantized[i][j] is an integer, equal to
\* round(coefficients[i][j] / quantTable[i][j]); quantTable is the luma table
\* when isChroma is false and the chroma table when it is true; and
\* reconstructed is the inverse transform of quantized * quantTable, plus
\* 128.  With quantization disabled, quantized is coefficients unchanged.
C24_SnapshotQuantization ==
    (Inspected /\ codec.m_transformType = "DCT") =>
        LET d == debug.data
            product == [i \in Idx8 |-> [j \in Idx8 |->
                           (d.quantized[i][j] \div ONE) * d.quantTable[i][j]]]
        IN  IF codec.m_enableQuantization
            THEN /\ d.quantTable = IF debug.isChroma THEN codec.m_chromaQuantTable
                                                     ELSE codec.m_lumaQuantTable
                 /\ d.quantTable = ScaledTable(IF debug.isChroma THEN BASE_CHROMA
                                                                 ELSE BASE_LUMA,
                                               codec.m_quality)
                 /\ \A i \in Idx8, j \in Idx8 :
                        /\ d.quantized[i][j] % ONE = 0
                        /\ IsRoundedQuotient(d.quantized[i][j] \div ONE,
                                             d.coefficients[i][j], d.quantTable[i][j])
                 /\ \A inverse \in {idct8x8(product)} :
                        \A i \in Idx8, j \in Idx8 :
                            d.reconstructed[i][j] = inverse[i][j] + Fx(128)
            ELSE d.quantized = d.coefficients

\* C24 witness: a DCT codec with quantization on has inspected a block of
\* the Cr plane as a chroma block: the table of the snapshot is not the luma
\* table, an index is not zero, and a coefficient is not a multiple of its
\* table entry, so that the rounding discarded something.
C24_Witness ==
    /\ Inspected
    /\ codec.m_transformType = "DCT" /\ codec.m_enableQuantization
    /\ debug.isChroma
    /\ debug.data.quantTable # codec.m_lumaQuantTable
    /\ \E i \in Idx8, j \in Idx8 :
           /\ debug.data.quantized[i][j] # 0
           /\ debug.data.coefficients[i][j] % debug.data.quantTable[i][j] # 0

\* the members of the codec that the constructor sets and no method writes:
\* all but m_lastBitEstimate
Config(c) == [c EXCEPT !.m_lastBitEstimate = 0]

\* a codec constructed anew with the arguments the codec was constructed with
FreshCodec(c) ==
    ImageCodecCtor(c.m_quality, c.m_enableQuantization, c.m_chromaSubsampling,
                   c.m_transformType)

\* C26: the codec is stateless across calls.  After any sequence of process
\* and inspectBlock calls, process returns for the image what a freshly
\* constructed codec of the same configuration returns for it; no call
\* changes the configuration or the tables of the codec, and no call changes
\* the input image.
C26_Stateless ==
    /\ [](last = "process" =>
             \A fresh \in {process(FreshCodec(codec), image)} :
                 output = fresh.output)
    /\ [][codec.exists => (Config(codec') = Config(codec) /\ image' = image)]_vars

\* process has returned on a codec that had inspected a block before, and
\* that holds the estimate of a process call
C26_Witness ==
    /\ last = "process"
    /\ debug # <<>>
    /\ codec.m_lastBitEstimate > 0

----------------------------------------------------------------------------
(* Claims about the quantization tables, checked under SpecTables *)

Generated == codec.exists /\ codec.m_enableQuantization

\* C5: for every quality in 1..100 every entry of the generated luma table
\* and of the generated chroma table is at least 1.0, also at quality 100
\* where the scale is 0.
C5_TableFloor ==
    Generated =>
        \A i \in Idx8, j \in Idx8 :
            /\ codec.m_lumaQuantTable[i][j] >= Fx(1)
            /\ codec.m_chromaQuantTable[i][j] >= Fx(1)

\* C5 witness: the codec of quality 100 (scale 0), whose entries sit on the floor.
C5_Witness ==
    /\ Generated
    /\ codec.m_quality = 100
    /\ QualityScale(100)[1] = 0
    /\ codec.m_lumaQuantTable[7][7] = Fx(1)
    /\ codec.m_chromaQuantTable[0][0] = Fx(1)

\* C6: the tables are non-increasing in quality: for all q1 <= q2 in 1..100
\* the sum of the luma entries at q2 is at most the sum at q1, and likewise
\* for chroma (q2 is the quality of the constructed codec).
C6_QualityMonotone ==
    Generated =>
        \A q1 \in 1 .. codec.m_quality :
            /\ TableSum(codec.m_lumaQuantTable)
                   <= TableSum(ScaledTable(BASE_LUMA, q1))
            /\ TableSum(codec.m_chromaQuantTable)
                   <= TableSum(ScaledTable(BASE_CHROMA, q1))

\* C6 witness: the codec of quality 50, the first of the linear branch, with
\* a strictly smaller sum than the table of quality 49.
C6_Witness ==
    /\ Generated
    /\ codec.m_quality = 50
    /\ TableSum(codec.m_lumaQuantTable) < TableSum(ScaledTable(BASE_LUMA, 49))
    /\ TableSum(codec.m_chromaQuantTable) < TableSum(ScaledTable(BASE_CHROMA, 49))

----------------------------------------------------------------------------
(* Claims about the wavelet helpers, checked under SpecWavelet *)

\* the call of the helper op has returned
Returned(op) == wav.op = op /\ wav.phase >= 1

C9_BandStep ==
    Returned("dwtQuantStep") =>
        LET tw(lev) == Even(wav.width \div 2 ^ lev)
            th(lev) == Even(wav.height \div 2 ^ lev)
            band == {lev \in 0 .. wav.levels - 1 :
                        /\ wav.x < tw(lev) /\ wav.y < th(lev)
                        /\ ~(wav.x < tw(lev) \div 2 /\ wav.y < th(lev) \div 2)}
            step(lev) == Max(Fx(1), RoundDiv(wav.baseStep, 2 ^ lev))
        IN  /\ wav.result = IF band = {} THEN step(wav.levels)
                            ELSE step(CHOOSE l \in band : \A m \in band : m <= l)
            /\ wav.result >= Fx(1)
            /\ step(wav.levels) <= wav.result
            /\ \A lev \in 0 .. wav.levels - 1 : step(lev + 1) <= step(lev)

\* C9 witness: (3, 3) of an 8x8 buffer with two levels lies in the detail
\* band of level 1 and gets half of the base step 50.
C9_Witness ==
    /\ Returned("dwtQuantStep")
    /\ wav.width = 8 /\ wav.height = 8 /\ wav.levels = 2
    /\ wav.x = 3 /\ wav.y = 3
    /\ wav.baseStep = Fx(50)
    /\ wav.result = Fx(25)

\* the calls that go through the Haar transforms and back
HaarCalls == {"dwt8x8", "dwtImage"}

\* what a round trip through the Haar transforms may change in a sample:
\* the rounding of its products, far less than a sample step
HaarTolerance == ONE \div 128

EnergyBase == 2 ^ 11
SquareSums(grid) ==
    LET hi(i, j) == Abs(grid[i][j]) \div EnergyBase
        lo(i, j) == Abs(grid[i][j]) % EnergyBase
        hh(i, j) == hi(i, j) * hi(i, j)
        hl(i, j) == 2 * hi(i, j) * lo(i, j)
        ll(i, j) == lo(i, j) * lo(i, j)
    IN  <<Sum64(hh), Sum64(hl), Sum64(ll)>>

\* the energy of grid a minus the energy of grid b, in units of 1 / ONE^2;
\* a difference too large to hold is reported as EnergyFar, with its sign
EnergyFar == 2 ^ 30
EnergyDiff(a, b) ==
    LET sa == SquareSums(a)
        sb == SquareSums(b)
        top == (sa[1] - sb[1]) * EnergyBase + (sa[2] - sb[2])
    IN  IF Abs(sa[1] - sb[1]) > 2 ^ 15 THEN Sgn(sa[1] - sb[1]) * EnergyFar
        ELSE IF Abs(top) > 2 ^ 18 THEN Sgn(top) * EnergyFar
        ELSE top * EnergyBase + (sa[3] - sb[3])

\* what the rounding of the products may change in the energy of a block:
\* the change of the square of the largest coefficient, 8 * 255, when the
\* coefficient changes by HaarTolerance; 32 squared sample steps, against
\* energies of up to 64 * 255^2
EnergyTolerance == 2 * Fx(8 * 255) * HaarTolerance

\* the block handed to dwt8x8 holds one value in all 64 cells
IsConstant(grid) == \A i \in Idx8, j \in Idx8 : grid[i][j] = grid[0][0]

DctTolerance == ONE \div 32

DcOnly(grid, dc) ==
    \A u \in Idx8, v \in Idx8 :
        Abs(grid[u][v] - (IF u = 0 /\ v = 0 THEN dc ELSE 0)) <= DctTolerance

----------------------------------------------------------------------------
(* Claims about CodecAnalysis and Image, checked under SpecAnalysis *)

\* the call of the function op has returned or thrown
Called(op) == analysis.op = op /\ analysis.phase = 1

\* the two images of the call have the same width, height and channel count
ShapesAgree ==
    /\ analysis.a.m_width = analysis.b.m_width
    /\ analysis.a.m_height = analysis.b.m_height
    /\ analysis.a.m_channels = analysis.b.m_channels

\* the literals 1e-5 and 1e-6, on either side of 255^2 * 1e-10 = 6.5025e-6
OneE5 == FDiv(Float(1), Float(100000))
OneE6 == FDiv(Float(1), Float(1000000))

\* C14 as stated: computePSNR returns exactly the ceiling 100.0 whenever the
\* mean squared error is <= 1e-10, in particular computePSNR(x, x) >= 99.0,
\* and it takes no logarithm or quotient of a zero MSE; for a pair with MSE
\* above the threshold it returns a finite value below the ceiling.
C14_PsnrCeiling ==
    (Called("computePSNR") /\ ShapesAgree) =>
        /\ FLe(analysis.result.mse, MseThreshold) => analysis.result.value = Fx(100)
        /\ analysis.a = analysis.b => analysis.result.value >= Fx(99)
        /\ ~FLe(analysis.result.mse, MseThreshold) => analysis.result.value < Fx(100)

\* C14 with the value above the threshold as the code computes it:
\* computePSNR returns exactly 100.0 whenever the mean squared error is
\* <= 1e-10, in particular for computePSNR(x, x), whose MSE is zero and of
\* which no logarithm or quotient is taken; for a pair with MSE above the
\* threshold it returns 10 * log10(255^2 / MSE), which is below 100 once the
\* MSE is above 255^2 * 1e-10 (here: from 1e-5 on) and above 100 for an MSE
\* between the threshold and that (here: up to 1e-6).
C14_PsnrThreshold ==
    (Called("computePSNR") /\ ShapesAgree) =>
        /\ FLe(analysis.result.mse, MseThreshold) => analysis.result.value = Fx(100)
        /\ analysis.a = analysis.b =>
               /\ analysis.result.mse = <<0, 0>>
               /\ analysis.result.value = Fx(100)
        /\ ~FLe(analysis.result.mse, MseThreshold) =>
               /\ analysis.result.value = PsnrOfMse(analysis.result.mse)
               /\ FLe(OneE5, analysis.result.mse) => analysis.result.value < Fx(100)
               /\ FLe(analysis.result.mse, OneE6) => analysis.result.value > Fx(100)

\* C14 witness: computePSNR has returned for two 64x64 planes that differ in
\* one sample by the smallest step: the MSE is above 1e-10 and below 1e-6,
\* and the value is above 140 dB.
C14_Witness ==
    /\ Called("computePSNR")
    /\ analysis.a = SparsePlane(64, 0) /\ analysis.b = SparsePlane(64, 1)
    /\ ~FLe(analysis.result.mse, MseThreshold)
    /\ FLe(analysis.result.mse, OneE6)
    /\ analysis.result.value > Fx(140)

\* C15: computePSNR and computeSSIM, called with two images that differ in
\* width, height or channel count, return 0.0 and have read no sample of
\* either image.
C15_MismatchIsZero ==
    ((Called("computePSNR") \/ Called("computeSSIM")) /\ ~ShapesAgree) =>
        /\ analysis.result.reads = 0
        /\ analysis.result.value = IF analysis.op = "computePSNR" THEN 0 ELSE <<0, 0>>

\* C15 witness: computeSSIM has returned 0.0 for a 5x9 and a 9x5 plane, which
\* hold the same number of samples, without a read.
C15_Witness ==
    /\ Called("computeSSIM")
    /\ analysis.a = ScrambledPlane(5, 9) /\ analysis.b = ScrambledPlane(9, 5)
    /\ analysis.result.value = <<0, 0>>
    /\ analysis.result.reads = 0

\* C16 as stated: no fidelity computation throws on a dimension mismatch:
\* computeArtifactMap called with two images of different width, height or
\* channel count returns instead of raising an error, and so does
\* computeMetrics, which calls it.
C16_NoThrowOnMismatch ==
    ((Called("computeArtifactMap") \/ Called("computeMetrics")) /\ ~ShapesAgree) =>
        analysis.result.thrown = "none"

\* C17: computeSSIM(x, x) returns exactly 1.0: every sampled window
\* contributes a ratio of exactly 1, so the mean over the windows is 1; and
\* computeMetrics(x, x) reports SSIM 1.0 for Y, Cr and Cb.
C17_SsimIdentity ==
    /\ (Called("computeSSIM") /\ analysis.a = analysis.b) =>
           /\ analysis.result.value = Float(1)
           /\ Len(analysis.result.windows) > 0
           /\ \A k \in 1 .. Len(analysis.result.windows) :
                  analysis.result.windows[k].index = Float(1)
    /\ (Called("computeMetrics") /\ analysis.a = analysis.b) =>
           /\ analysis.result.thrown = "none"
           /\ analysis.result.ssimY = Float(1)
           /\ analysis.result.ssimCr = Float(1)
           /\ analysis.result.ssimCb = Float(1)

\* C17 witness: computeSSIM has returned 1.0 for the scrambled 9x9 plane
\* against itself: nine windows, whose means and variances are not zero.
C17_Witness ==
    /\ Called("computeSSIM")
    /\ analysis.a = ScrambledPlane(9, 9) /\ analysis.b = analysis.a
    /\ Len(analysis.result.windows) = 9
    /\ analysis.result.value = Float(1)
    /\ FLt(<<0, 0>>,
           getVariance(WindowSamples(analysis.a.m_data, 9,
                                     WindowCells(9, 9, 4, 4, kernelSize)),
                       getMean(WindowSamples(analysis.a.m_data, 9,
                                             WindowCells(9, 9, 4, 4, kernelSize)))))

\* C18 as stated: computeSSIM samples one window per anchor (x, y), x and y
\* stepping by 4 from 0 across the plane (ceil(W/4) * ceil(H/4) windows);
\* each window is an 8x8 window: it covers exactly 64 samples when it lies
\* entirely inside the plane and only the in-plane samples, so never more
\* than 64, otherwise; the result is the unweighted mean of the indices.
C18_SsimWindows ==
    (Called("computeSSIM") /\ ShapesAgree) =>
        LET W == analysis.a.m_width
            H == analysis.a.m_height
            nx == (W + 3) \div 4
            win == analysis.result.windows
        IN  /\ Len(win) = nx * ((H + 3) \div 4)
            /\ \A k \in 1 .. Len(win) :
                   /\ win[k].x = 4 * ((k - 1) % nx)
                   /\ win[k].y = 4 * ((k - 1) \div nx)
                   /\ win[k].count <= 64
                   /\ Cardinality({c \in (win[k].x - 4 .. win[k].x + 4)
                                            \X (win[k].y - 4 .. win[k].y + 4) :
                                      c[1] \in 0 .. W - 1 /\ c[2] \in 0 .. H - 1}) >= 64
                          => win[k].count = 64
            /\ analysis.result.value =
                   FDiv(FAccumulate(<<0, 0>>, [k \in 1 .. Len(win) |-> win[k].index],
                                    1, Len(win) + 1),
                        Float(Len(win)))

\* what computeArtifactMap has returned for two images of equal shape: an
\* image of that shape, every sample min(255, |a - b| * gain)
ArtifactMapValues ==
    (Called("computeArtifactMap") /\ ShapesAgree) =>
        /\ analysis.result.thrown = "none"
        /\ analysis.result.image.m_width = analysis.a.m_width
        /\ analysis.result.image.m_height = analysis.a.m_height
        /\ analysis.result.image.m_channels = analysis.a.m_channels
        /\ DOMAIN analysis.result.image.m_data = DOMAIN analysis.a.m_data
        /\ \A i \in DOMAIN analysis.a.m_data :
               LET out == analysis.result.image.m_data[i]
                   d == Abs(analysis.a.m_data[i] - analysis.b.m_data[i])
               IN  /\ out = Min(Fx(255), MulMicro(d, analysis.gain))
                   /\ out >= 0 /\ out <= Fx(255)
                   /\ d = 0 => out = 0
                   /\ (analysis.gain = DefaultGain /\ 5 * d <= Fx(255)) => out = 5 * d
                   /\ (analysis.gain = DefaultGain /\ 5 * d > Fx(255)) => out = Fx(255)

\* C19: for two images of equal width, height and channel count,
\* computeArtifactMap returns an image of that shape whose every sample is
\* min(255, |a - b| * gain) of the corresponding input samples (gain 5.0 by
\* default), so every sample is in [0, 255] for gain >= 0 and is 0 where the
\* inputs agree; and the call modifies neither input.
C19_ArtifactMap ==
    /\ []ArtifactMapValues
    /\ [][analysis.op = "computeArtifactMap" =>
              (analysis'.a = analysis.a /\ analysis'.b = analysis.b)]_vars

\* C19 witness: computeArtifactMap has returned, with the default gain, the
\* map of two 9x9 three-channel images: one sample is 0 since the inputs
\* agree there, one is five times a difference, one is capped at 255.
C19_Witness ==
    /\ Called("computeArtifactMap")
    /\ analysis.gain = DefaultGain
    /\ analysis.a = TestImage(9, 9, 1) /\ analysis.b = TestImage(9, 9, 2)
    /\ \E i \in DOMAIN analysis.a.m_data, j \in DOMAIN analysis.a.m_data,
          k \in DOMAIN analysis.a.m_data :
         /\ analysis.a.m_data[i] = analysis.b.m_data[i]
         /\ analysis.result.image.m_data[i] = 0
         /\ analysis.result.image.m_data[j] > 0
         /\ analysis.result.image.m_data[j] < Fx(255)
         /\ 5 * Abs(analysis.a.m_data[k] - analysis.b.m_data[k]) > Fx(255)
         /\ analysis.result.image.m_data[k] = Fx(255)

\* C20: constructing an Image with any of width, height or channels <= 0
\* fails with an invalid-argument error and yields no image; every Image
\* constructed has width > 0, height > 0, channels > 0 and exactly
\* width * height * channels samples, all 0, with sample (x, y, c) at index
\* (y * width + x) * channels + c, a position of its own; a
\* default-constructed Image has all dimensions 0 and no samples.
C20_ImageConstruction ==
    /\ Called("Image") =>
           IF analysis.width <= 0 \/ analysis.height <= 0 \/ analysis.channels <= 0
           THEN /\ analysis.result.thrown = "invalid_argument"
                /\ "image" \notin DOMAIN analysis.result
           ELSE LET img == analysis.result.image
                    coords == (0 .. img.m_width - 1) \X (0 .. img.m_height - 1)
                                  \X (0 .. img.m_channels - 1)
                IN  /\ analysis.result.thrown = "none"
                    /\ img.m_width = analysis.width /\ img.m_width > 0
                    /\ img.m_height = analysis.height /\ img.m_height > 0
                    /\ img.m_channels = analysis.channels /\ img.m_channels > 0
                    /\ DOMAIN img.m_data =
                           0 .. analysis.width * analysis.height * analysis.channels - 1
                    /\ \A k \in DOMAIN img.m_data : img.m_data[k] = 0
                    /\ \A p \in coords :
                           /\ index(img, p[1], p[2], p[3])
                                  = (p[2] * img.m_width + p[1]) * img.m_channels + p[3]
                           /\ index(img, p[1], p[2], p[3]) \in DOMAIN img.m_data
                           /\ at(img, p[1], p[2], p[3]) = 0
                           /\ \A q \in coords :
                                  index(img, q[1], q[2], q[3]) = index(img, p[1], p[2], p[3])
                                      => q = p
    /\ Called("Image()") =>
           /\ analysis.result.thrown = "none"
           /\ analysis.result.image.m_width = 0
           /\ analysis.result.image.m_height = 0
           /\ analysis.result.image.m_channels = 0
           /\ DOMAIN analysis.result.image.m_data = {}

\* C20 witness: Image(2, 3, 3) has been constructed, with 18 samples, the
\* last of them sample (1, 2, 2).
C20_Witness ==
    /\ Called("Image")
    /\ analysis.width = 2 /\ analysis.height = 3 /\ analysis.channels = 3
    /\ analysis.result.thrown = "none"
    /\ DOMAIN analysis.result.image.m_data = 0 .. 17
    /\ index(analysis.result.image, 1, 2, 2) = 17

----------------------------------------------------------------------------
(* Claims about the construction of the codec, checked under SpecConfig *)

\* C21 as stated: constructing an ImageCodec with a non-positive quality
\* fails at construction: no codec instance with quality <= 0 exists, and so
\* no instance holds tables made with a scale that is infinite (a division
\* by zero) or negative.
C21_QualityPositive ==
    codec.exists =>
        /\ codec.m_quality > 0
        /\ TablesWritten(codec) =>
               /\ QualityScale(codec.m_quality)[2] > 0
               /\ QualityScale(codec.m_quality)[1] >= 0
               /\ \A i \in Idx8, j \in Idx8 : codec.m_lumaQuantTable[i][j] < Infinity

----------------------------------------------------------------------------
(* Claims about inspectBlock at any block, checked under SpecWavelet *)

\* C25 as stated: with the DCT, for every block coordinate (blockX, blockY)
\* >= (0, 0), original[i][j] of the snapshot is the plane sample at column
\* 8 * blockX + j, row 8 * blockY + i when that position is inside the
\* plane, and 0 otherwise; inspectBlock reads no sample outside the plane,
\* and the call always returns a snapshot.
C25_OriginalGrid ==
    /\ last # "fault"
    /\ Returned("inspectBlockAt") =>
           /\ \A p \in debug.reads : InPlane(wav.src, p)
           /\ \A i \in Idx8, j \in Idx8 :
                  debug.data.original[i][j] =
                      IF /\ wav.x < wav.src.m_width /\ wav.y < wav.src.m_height
                         /\ InPlane(wav.src, <<8 * wav.x + j, 8 * wav.y + i>>)
                      THEN at(wav.src, 8 * wav.x + j, 8 * wav.y + i, 0)
                      ELSE 0

----------------------------------------------------------------------------
(* Claims about block inspection against the pipeline, checked under Spec *)

\* the plane of the last process call that the last inspectBlock call was
\* handed: its samples before (in) and after (out) processChannel
ProcessedPlane ==
    IF debug.channel = 0 THEN planes.Y
    ELSE IF debug.channel = 1 THEN planes.Cr ELSE planes.Cb

\* inspectBlock has returned for a plane that process has put through
\* processChannel with the same table: the luma plane, or a chroma plane
\* that was not subsampled
Comparable ==
    /\ last = "inspectBlock"
    /\ codec.m_transformType = "DCT"
    /\ planes # <<>>
    /\ \/ (debug.channel = 0 /\ ~debug.isChroma)
       \/ (debug.channel # 0 /\ debug.isChroma /\ codec.m_chromaSubsampling = "CS_444")

\* cell (i, j) of the inspected block is a sample of the plane
CellInPlane(i, j) ==
    /\ 8 * debug.blockX + j < ProcessedPlane.in.m_width
    /\ 8 * debug.blockY + i < ProcessedPlane.in.m_height

\* the index of cell (i, j) of the inspected block in the data of the plane
CellIndex(i, j) ==
    (8 * debug.blockY + i) * ProcessedPlane.in.m_width + 8 * debug.blockX + j

\* the inspected block lies entirely inside the plane
FullBlock == CellInPlane(7, 7)

\* the inspected block runs past the right or the bottom edge of the plane
EdgeBlock == CellInPlane(0, 0) /\ ~CellInPlane(7, 7)

\* C29 as stated, second half: for a block that runs past the plane edge the
\* reconstructed grid of inspectBlock differs from the samples processChannel
\* writes for the block, by more than the rounding of the arithmetic, in at
\* least one sample.
C29_EdgeBlocksDiffer ==
    (Comparable /\ EdgeBlock) =>
        \E i \in Idx8, j \in Idx8 :
            /\ CellInPlane(i, j)
            /\ Abs(debug.data.reconstructed[i][j]
                     - ProcessedPlane.out.m_data[CellIndex(i, j)]) > DctTolerance

\* C29: with the DCT, for every block that lies entirely inside the plane
\* the reconstructed grid of inspectBlock equals the 64 samples processChannel
\* writes for the block with the same table.  For a block that runs past the
\* plane edge processChannel copies the samples and inspectBlock transforms
\* the zero-padded block; with quantization disabled the reconstructed grid
\* then agrees with the copied samples within the rounding of the round trip.
C29_FullBlocksAgree ==
    Comparable =>
        /\ FullBlock =>
               \A i \in Idx8, j \in Idx8 :
                   debug.data.reconstructed[i][j]
                       = ProcessedPlane.out.m_data[CellIndex(i, j)]
        /\ EdgeBlock =>
               \A i \in Idx8, j \in Idx8 :
                   IF CellInPlane(i, j)
                   THEN /\ ProcessedPlane.out.m_data[CellIndex(i, j)]
                              = ProcessedPlane.in.m_data[CellIndex(i, j)]
                        /\ debug.data.original[i][j]
                              = ProcessedPlane.in.m_data[CellIndex(i, j)]
                        /\ ~codec.m_enableQuantization =>
                               Abs(debug.data.reconstructed[i][j]
                                     - ProcessedPlane.out.m_data[CellIndex(i, j)])
                                   <= DctTolerance
                   ELSE debug.data.original[i][j] = 0

\* a full block has been inspected and processed with quantization, which
\* changed its samples
C29_Witness ==
    /\ Comparable /\ FullBlock
    /\ codec.m_enableQuantization
    /\ debug.data.reconstructed # debug.data.original
    /\ \A i \in Idx8, j \in Idx8 :
           debug.data.reconstructed[i][j] = ProcessedPlane.out.m_data[CellIndex(i, j)]

\* C30: getLastBitEstimate reflects the most recent process call only.  It
\* is 0 before any process call; after one it is the sum of what the three
\* planes of that call added, whatever was called before; no later call
\* changes it, inspectBlock never changes it.  With the DCT and quantization
\* disabled it is 0 after process; with the DWT every plane adds at least
\* its 400-bit header, with quantization enabled or not.
C30_LastBitEstimate ==
    /\ []((codec.exists /\ planes = <<>>) => codec.m_lastBitEstimate = 0)
    /\ [](planes # <<>> =>
             /\ codec.m_lastBitEstimate
                   = planes.Y.bits + planes.Cr.bits + planes.Cb.bits
             /\ (codec.m_transformType = "DCT" /\ ~codec.m_enableQuantization)
                   => codec.m_lastBitEstimate = 0
             /\ codec.m_transformType = "DWT"
                   => \A p \in {"Y", "Cr", "Cb"} : planes[p].bits >= Fx(400))
    /\ [][(codec.exists /\ (planes # <<>> \/ last' = "inspectBlock"))
             => codec'.m_lastBitEstimate = codec.m_lastBitEstimate]_vars

\* a block has been inspected after a process call of a wavelet codec without
\* quantization, and the estimate of that call stands
C30_Witness ==
    /\ last = "inspectBlock"
    /\ planes # <<>>
    /\ codec.m_transformType = "DWT" /\ ~codec.m_enableQuantization
    /\ codec.m_lastBitEstimate >= 3 * Fx(400)

----------------------------------------------------------------------------
(* Claims about the web bridge, checked under SpecBridge *)

\* C27 as stated: whenever get_view_ptr reads the cached processed plane
\* (every view mode does), the plane exists and has the width and the height
\* of the current original image, and the call returns the buffer of the
\* view, after any sequence of init_session, process_image and get_view_ptr
\* calls.
C27_ProcessedPlaneMatches ==
    (ret # <<>> /\ ret.op = "get_view_ptr" /\ ret.read) =>
        /\ ret.processed.m_width > 0 /\ ret.processed.m_height > 0
        /\ ret.processed.m_width = g_session.originalImage.m_width
        /\ ret.processed.m_height = g_session.originalImage.m_height
        /\ ret.value = "buffer"

\* C28 as stated: while the session is uninitialised, no operation other
\* than init_session changes the session.
C28_AllInert ==
    [][(~g_session.initialized /\ last' # "init_session")
          => g_session' = g_session]_vars

\* C28: while the session is uninitialised process_image changes nothing,
\* get_view_ptr and inspect_block_data return null and every PSNR / SSIM
\* getter returns 0.0; init_session with a null buffer or a width or height
\* that is not positive leaves the whole session unchanged; an initialised
\* session never becomes uninitialised.
C28_InertUntilInitialised ==
    /\ []((ret # <<>> /\ ~g_session.initialized) =>
             /\ ret.op \in {"get_view_ptr", "inspect_block_data"}
                   => ret.value = "null"
             /\ ret.op = "get_metric"
                   => IF ret.metric \in {"psnrY", "psnrCr", "psnrCb"}
                      THEN ret.value = 0
                      ELSE ret.value = <<0, 0>>)
    /\ [][(~g_session.initialized
             /\ last' \in {"process_image", "get_view_ptr", "inspect_block_data",
                            "get_metric"})
             => (g_session' = g_session /\ g_artifact_gain' = g_artifact_gain)]_vars
    /\ [][(last' = "init_session"
             /\ (ret'.null \/ ret'.width <= 0 \/ ret'.height <= 0))
             => g_session' = g_session]_vars
    /\ [][g_session.initialized => g_session'.initialized]_vars

\* get_view_ptr has returned null on a session that is not initialised, and
\* whose tint setting a set_view_tint call has changed
C28_Witness ==
    /\ ~g_session.initialized
    /\ ~g_session.useTint
    /\ ret # <<>> /\ ret.op = "get_view_ptr" /\ ret.value = "null"

=============================================================================
